---- MODULE Spec2Model ----
(***************************************************************************)
(* Model of the node tree engine of ndr: the nodes table (materialized     *)
(* path, sibling position, cached subtree_doc_count, soft-delete marker),  *)
(* the node_documents association table, and the service operations of    *)
(* app/app/services/node_service.py and relationship_service.py.           *)
(*                                                                         *)
(* A path is a sequence of slugs ("docs.intro" is <<"docs","intro">>);     *)
(* NULL parent_path is <<>> and NULL parent_id is 0.                       *)
(*                                                                         *)
(* Sessions are created with autoflush=False (infra/db/session.py:33-35):  *)
(* a query issued inside an operation is evaluated against the rows in the *)
(* database (parameter db), while attribute reads and writes go to the     *)
(* session's objects (parameter mem); mem is written to the database only  *)
(* by the commit that ends the operation.                                  *)
(***************************************************************************)
EXTENDS Integers, Sequences, FiniteSets, TLC

\* ---------------------------------------------------------------- bounds
MaxNodes == 4
MaxOps == 6
MaxTreeNodes == 3
MaxTreeOps == 4
MaxLockNodes == 3
MaxLockOps == 4
NumTx == 2
MaxCountNodes == 3
MaxCountOps == 6
MaxListNodes == 4
MaxListOps == 5
MaxDepth == 2
MaxRecountOps == 6
MaxFairNodes == 2
MaxFairOps == 3

NodeIds == 1 .. MaxNodes
Slugs == {"a", "b"}
ThirdSlug == "c"
BadSlug == "A!"
Names == {"n1", "n2"}
Docs == {1}
Types == {"folder", "document"}
None == "-"
NullPath == << >>
MissingPath == << "missing" >>

\* ---------------------------------------------------------------- rows
NoRow ==
  [exists |-> FALSE, name |-> None, slug |-> None, parent_id |-> 0,
   parent_path |-> NullPath, path |-> NullPath, position |-> 0,
   subtree_doc_count |-> 0, deleted |-> FALSE, type |-> None]

Node(name, slug, parent_id, parent_path, path, position) ==
  [exists |-> TRUE, name |-> name, slug |-> slug, parent_id |-> parent_id,
   parent_path |-> parent_path, path |-> path, position |-> position,
   subtree_doc_count |-> 0, deleted |-> FALSE, type |-> None]

Rows(ns) == {i \in NodeIds : ns[i].exists}
Active(ns) == {i \in NodeIds : ns[i].exists /\ ~ns[i].deleted}

\* f"{parent_path}.{slug}"
JoinPath(parent_path, slug) == Append(parent_path, slug)
\* path.rsplit(".", 1)[0], None when the path has no "."
ParentOfPath(path) == IF Len(path) > 1 THEN SubSeq(path, 1, Len(path) - 1) ELSE NullPath
\* q.startswith(f"{p}.") and the lquery p.*{1,}: p followed by at least one label
StartsWithDot(q, p) == Len(q) > Len(p) /\ SubSeq(q, 1, Len(p)) = p
\* the lquery p.*{1,depth}
MatchDepth(q, p, depth) == StartsWithDot(q, p) /\ Len(q) - Len(p) <= depth

\* ---------------------------------------------------------------- NodeRepository
\* session.get(Node, id): 0 stands for None
get(ns, node_id) == IF node_id \in NodeIds /\ ns[node_id].exists THEN node_id ELSE 0

get_active_by_path(ns, path) ==
  LET hit == {i \in Active(ns) : ns[i].path = path}
  IN IF hit = {} THEN 0 ELSE CHOOSE i \in hit : TRUE

has_active_path(ns, path, exclude_id) ==
  \E i \in Active(ns) : ns[i].path = path /\ i # exclude_id

has_active_name(ns, parent_path, name, exclude_id) ==
  \E i \in Active(ns) :
    ns[i].name = name /\ ns[i].parent_path = parent_path /\ i # exclude_id

_with_parent_filter(ns, parent_id) == {i \in Rows(ns) : ns[i].parent_id = parent_id}

Max(S) == CHOOSE x \in S : \A y \in S : y <= x

next_position(ns, parent_id) ==
  LET ps == {ns[i].position : i \in _with_parent_filter(ns, parent_id) \cap Active(ns)}
  IN IF ps = {} THEN 0 ELSE Max(ps) + 1

\* ORDER BY position, id
PositionLess(ns, i, j) ==
  ns[i].position < ns[j].position \/ (ns[i].position = ns[j].position /\ i < j)

OrderedBy(ns, S) ==
  [k \in 1 .. Cardinality(S) |->
     CHOOSE i \in S : Cardinality({j \in S : PositionLess(ns, j, i)}) = k - 1]

fetch_siblings(ns, parent_id, include_deleted) ==
  OrderedBy(ns, IF include_deleted THEN _with_parent_filter(ns, parent_id)
                ELSE _with_parent_filter(ns, parent_id) \cap Active(ns))

\* The sibling list is queried from db; positions are compared and assigned
\* on the session's objects.
normalize_positions(db, mem, parent_id) ==
  LET siblings == fetch_siblings(db, parent_id, FALSE)
  IN [i \in NodeIds |->
        IF \E k \in 1 .. Len(siblings) : siblings[k] = i
        THEN LET index == (CHOOSE k \in 1 .. Len(siblings) : siblings[k] = i) - 1
             IN IF mem[i].position # index
                THEN [mem[i] EXCEPT !.position = index] ELSE mem[i]
        ELSE mem[i]]

\* lock_nodes without sorted(set(...)): the keys in the caller's order.
lock_nodes_caller_order(node_ids) == node_ids

lock_nodes(node_ids) ==
  LET ids == {node_ids[k] : k \in 1 .. Len(node_ids)}
  IN [k \in 1 .. Cardinality(ids) |->
        CHOOSE i \in ids : Cardinality({j \in ids : j < i}) = k - 1]

\* fetch_descendants that leaves out the soft-deleted rows.
fetch_descendants_active(ns, root_path, exclude_id) ==
  {i \in Active(ns) : i # exclude_id /\ StartsWithDot(ns[i].path, root_path)}

fetch_descendants(ns, root_path, exclude_id) ==
  {i \in Rows(ns) : i # exclude_id /\ StartsWithDot(ns[i].path, root_path)}

fetch_children(ns, node_path, depth) ==
  {i \in Active(ns) : MatchDepth(ns[i].path, node_path, depth)}

\* fetch_subtree with the descendant pattern only, the root left out.
fetch_subtree_without_root(ns, root_path, include_deleted) ==
  {i \in Rows(ns) :
     /\ StartsWithDot(ns[i].path, root_path)
     /\ include_deleted \/ ~ns[i].deleted}

fetch_subtree(ns, root_path, include_deleted) ==
  {i \in Rows(ns) :
     /\ ns[i].path = root_path \/ StartsWithDot(ns[i].path, root_path)
     /\ include_deleted \/ ~ns[i].deleted}

\* Not in the repository file: the active nodes on the path, the node at
\* the path included (node_service.py:310-315 passes the parent's path to
\* reach the parent chain; node_service.py:681 "the node and its ancestors").
get_ancestor_ids(ns, path) ==
  {i \in Active(ns) : ns[i].path = path \/ StartsWithDot(path, ns[i].path)}

\* Not in the repository file: adds delta to the counter of every id.
update_subtree_counts(ns, ids, delta) ==
  [i \in NodeIds |->
     IF i \in ids
     THEN [ns[i] EXCEPT !.subtree_doc_count = ns[i].subtree_doc_count + delta]
     ELSE ns[i]]

\* Not in the repository file: the rows with the given ids.
get_many(ns, ids) == {i \in ids : i \in NodeIds /\ ns[i].exists}

\* ---------------------------------------------------------------- bindings
\* node_documents rows are "none" (no row), "active" or "deleted" (soft-deleted);
\* relation_type takes its server default "output" (migration 0010), the counted type.
\* documents rows are "none", "live" or "deleted".

\* select count(*) from node_documents join documents ... where both are live
\* and node_id in ids
CountedBindings(rl, dc, ids) ==
  Cardinality({p \in ids \X Docs : rl[p] = "active" /\ dc[p[2]] = "live"})

\* ---------------------------------------------------------------- results
\* The outcome of an operation: its status and the rows it leaves.  An
\* operation that ends in its commit hands over the session's objects (ns)
\* and the binding rows (rl); one that raises before any commit leaves the
\* rows as they were, because the session is rolled back (api/v1/deps.py:21-23).
Result(st, why, ns, rl) == [st |-> st, why |-> why, ns |-> ns, rl |-> rl]
Fail(st, why, ns, rl) == Result(st, why, ns, rl)

\* _ensure_user that takes the empty identity too.
_ensure_user_any(user_id) == TRUE

\* BaseService._ensure_user
_ensure_user(user_id) == user_id # ""

\* re.fullmatch(r"[a-z0-9_-]{1,255}", slug)
SlugOk(slug) == slug \in Slugs \cup {ThirdSlug}

\* uq_nodes_path_active declared without unique=True.
uq_nodes_path_active_not_unique(ns) == TRUE

\* The partial unique indexes of the nodes table, enforced when the commit
\* flushes the session.
uq_nodes_path_active(ns) ==
  \A i, j \in Active(ns) : i # j => ns[i].path # ns[j].path

\* uq_nodes_parent_name_active declared without unique=True.
uq_nodes_parent_name_active_not_unique(ns) == TRUE

uq_nodes_parent_name_active(ns) ==
  \A i, j \in Active(ns) :
    i # j => ~(ns[i].parent_path = ns[j].parent_path /\ ns[i].name = ns[j].name)

\* BaseService._commit: commit, or rollback and re-raise.
_commit(db, rl, r) ==
  IF r.st # "ok" THEN r
  ELSE IF ~uq_nodes_path_active(r.ns) THEN Result("IntegrityError", "path", db, rl)
  ELSE IF ~uq_nodes_parent_name_active(r.ns) THEN Result("IntegrityError", "name", db, rl)
  ELSE r

\* ---------------------------------------------------------------- create_node
\* create_node without the has_active_path test of lines 133-134.
create_node_no_path_check(db, rl, new_id, data, user_id) ==
  IF ~_ensure_user(user_id) THEN Fail("MissingActor", "user", db, rl)
  ELSE IF ~SlugOk(data.slug) THEN Fail("InvalidOperation", "slug", db, rl)
  ELSE
  LET parent_node == IF data.parent_path # NullPath
                     THEN get_active_by_path(db, data.parent_path) ELSE 0
  IN IF data.parent_path # NullPath /\ parent_node = 0
     THEN Fail("ParentNotFound", "parent", db, rl)
     ELSE
     LET parent_path == IF parent_node # 0 THEN db[parent_node].path ELSE NullPath
         path == IF parent_path = NullPath THEN << data.slug >>
                 ELSE JoinPath(parent_path, data.slug)
         position == next_position(db, parent_node)
     IN IF has_active_name(db, parent_path, data.name, 0)
        THEN Fail("Conflict", "name", db, rl)
        ELSE Result("ok", "created",
               [db EXCEPT ![new_id] =
                  [Node(data.name, data.slug, parent_node, parent_path, path, position)
                     EXCEPT !.type = data.type]],
               rl)

create_node(db, rl, new_id, data, user_id) ==
  IF ~_ensure_user(user_id) THEN Fail("MissingActor", "user", db, rl)
  ELSE IF ~SlugOk(data.slug) THEN Fail("InvalidOperation", "slug", db, rl)
  ELSE
  LET parent_node == IF data.parent_path # NullPath
                     THEN get_active_by_path(db, data.parent_path) ELSE 0
  IN IF data.parent_path # NullPath /\ parent_node = 0
     THEN Fail("ParentNotFound", "parent", db, rl)
     ELSE
     LET parent_path == IF parent_node # 0 THEN db[parent_node].path ELSE NullPath
         path == IF parent_path = NullPath THEN << data.slug >>
                 ELSE JoinPath(parent_path, data.slug)
         position == next_position(db, parent_node)
     IN IF has_active_path(db, path, 0) THEN Fail("Conflict", "path", db, rl)
        ELSE IF has_active_name(db, parent_path, data.name, 0)
        THEN Fail("Conflict", "name", db, rl)
        ELSE Result("ok", "created",
               [db EXCEPT ![new_id] =
                  [Node(data.name, data.slug, parent_node, parent_path, path, position)
                     EXCEPT !.type = data.type]],
               rl)

\* update_node_pre without the test of lines 190-193 (the new parent lies in
\* the node's own subtree).
update_node_pre_no_subtree_check(db, node_id, data, user_id) ==
  LET none == [st |-> "ok", why |-> "", parent_node |-> 0,
               target_parent_path |-> NullPath, target_parent_id |-> 0,
               lock_ids |-> << >>]
  IN
  IF ~_ensure_user(user_id) THEN [none EXCEPT !.st = "MissingActor", !.why = "user"]
  ELSE IF get(db, node_id) = 0 \/ db[node_id].deleted
  THEN [none EXCEPT !.st = "NotFound", !.why = "node"]
  ELSE IF data.slug # None /\ ~SlugOk(data.slug)
  THEN [none EXCEPT !.st = "InvalidOperation", !.why = "slug"]
  ELSE
  LET node == db[node_id]
      parent_node == IF data.parent_path_set /\ data.parent_path # NullPath
                     THEN get_active_by_path(db, data.parent_path) ELSE 0
  IN IF data.parent_path_set /\ data.parent_path # NullPath /\ parent_node = 0
     THEN [none EXCEPT !.st = "ParentNotFound", !.why = "parent"]
     ELSE IF parent_node # 0 /\ parent_node = node_id
     THEN [none EXCEPT !.st = "InvalidOperation", !.why = "self_parent"]
     ELSE
       [st |-> "ok", why |-> "",
        parent_node |-> parent_node,
        target_parent_path |->
          IF ~data.parent_path_set THEN node.parent_path
          ELSE IF parent_node # 0 THEN db[parent_node].path ELSE NullPath,
        target_parent_id |->
          IF ~data.parent_path_set THEN node.parent_id
          ELSE parent_node,
        lock_ids |-> IF parent_node # 0 THEN << node_id, parent_node >>
                     ELSE << node_id >>]

\* ---------------------------------------------------------------- update_node
\* Lines 159-203: everything up to and including the lock_nodes call.
update_node_pre(db, node_id, data, user_id) ==
  LET none == [st |-> "ok", why |-> "", parent_node |-> 0,
               target_parent_path |-> NullPath, target_parent_id |-> 0,
               lock_ids |-> << >>]
  IN
  IF ~_ensure_user(user_id) THEN [none EXCEPT !.st = "MissingActor", !.why = "user"]
  ELSE IF get(db, node_id) = 0 \/ db[node_id].deleted
  THEN [none EXCEPT !.st = "NotFound", !.why = "node"]
  ELSE IF data.slug # None /\ ~SlugOk(data.slug)
  THEN [none EXCEPT !.st = "InvalidOperation", !.why = "slug"]
  ELSE
  LET node == db[node_id]
      parent_node == IF data.parent_path_set /\ data.parent_path # NullPath
                     THEN get_active_by_path(db, data.parent_path) ELSE 0
  IN IF data.parent_path_set /\ data.parent_path # NullPath /\ parent_node = 0
     THEN [none EXCEPT !.st = "ParentNotFound", !.why = "parent"]
     ELSE IF parent_node # 0 /\ parent_node = node_id
     THEN [none EXCEPT !.st = "InvalidOperation", !.why = "self_parent"]
     ELSE IF parent_node # 0 /\ StartsWithDot(db[parent_node].path, node.path)
     THEN [none EXCEPT !.st = "InvalidOperation", !.why = "own_subtree"]
     ELSE
       [st |-> "ok", why |-> "",
        parent_node |-> parent_node,
        target_parent_path |->
          IF ~data.parent_path_set THEN node.parent_path
          ELSE IF parent_node # 0 THEN db[parent_node].path ELSE NullPath,
        target_parent_id |->
          IF ~data.parent_path_set THEN node.parent_id
          ELSE parent_node,
        lock_ids |-> IF parent_node # 0 THEN << node_id, parent_node >>
                     ELSE << node_id >>]

\* _migrate_subtree_counts_on_move without the subtraction from the old chain.
_migrate_subtree_counts_on_move_no_subtract(db, rl, dc, subtree_root_path, old_parent_path, new_parent_path) ==
  LET subtree_node_ids == fetch_subtree(db, subtree_root_path, FALSE)
      subtree_binding_count == CountedBindings(rl, dc, subtree_node_ids)
      new_external_ancestor_ids ==
        IF new_parent_path # NullPath THEN get_ancestor_ids(db, new_parent_path) ELSE {}
  IN [i \in NodeIds |->
        IF subtree_node_ids = {} \/ subtree_binding_count = 0 THEN 0
        ELSE IF i \in new_external_ancestor_ids THEN subtree_binding_count ELSE 0]

\* Lines 271-327: the counter deltas of a move, as a function id -> delta.
_migrate_subtree_counts_on_move(db, rl, dc, subtree_root_path, old_parent_path, new_parent_path) ==
  LET subtree_node_ids == fetch_subtree(db, subtree_root_path, FALSE)
      subtree_binding_count == CountedBindings(rl, dc, subtree_node_ids)
      old_external_ancestor_ids ==
        IF old_parent_path # NullPath THEN get_ancestor_ids(db, old_parent_path) ELSE {}
      new_external_ancestor_ids ==
        IF new_parent_path # NullPath THEN get_ancestor_ids(db, new_parent_path) ELSE {}
  IN [i \in NodeIds |->
        IF subtree_node_ids = {} \/ subtree_binding_count = 0 THEN 0
        ELSE (IF i \in old_external_ancestor_ids THEN 0 - subtree_binding_count ELSE 0)
             + (IF i \in new_external_ancestor_ids THEN subtree_binding_count ELSE 0)]

ApplyCounts(ns, delta) ==
  [i \in NodeIds |->
     IF delta[i] # 0
     THEN [ns[i] EXCEPT !.subtree_doc_count = ns[i].subtree_doc_count + delta[i]]
     ELSE ns[i]]

\* path_to_id = {n.path: n.id for n in updated_nodes}: a later entry replaces
\* an earlier one, and fetch_descendants has no ORDER BY, so among several
\* nodes with one path the surviving id is any of them (tie picks).
Pick(tie, S) ==
  IF tie = "lo" THEN CHOOSE x \in S : \A y \in S : x <= y ELSE Max(S)

\* The rewrite that stops at the node itself and leaves its descendants.
RewritePaths_node_only(db, mem, node_id, new_path, tie) ==
  [mem EXCEPT ![node_id].path = new_path]

\* The rewrite that keeps only the last label of a descendant's path.
RewritePaths_last_label(db, mem, node_id, new_path, tie) ==
  LET old_path == mem[node_id].path
      descendants == fetch_descendants(db, old_path, node_id)
  IN [i \in NodeIds |->
        IF i = node_id THEN [mem[i] EXCEPT !.path = new_path]
        ELSE IF i \in descendants /\ StartsWithDot(mem[i].path, old_path)
        THEN [mem[i] EXCEPT !.path = Append(new_path, mem[i].path[Len(mem[i].path)]),
                            !.parent_path = new_path, !.parent_id = node_id]
        ELSE mem[i]]

\* Lines 239-261: the rewrite of the node's and its descendants' paths.
RewritePaths(db, mem, node_id, new_path, tie) ==
  LET old_path == mem[node_id].path
      descendants == fetch_descendants(db, old_path, node_id)
      rewritten ==
        [i \in NodeIds |->
           IF i = node_id THEN [mem[i] EXCEPT !.path = new_path]
           ELSE IF i \in descendants /\ StartsWithDot(mem[i].path, old_path)
           THEN LET suffix == SubSeq(mem[i].path, Len(old_path) + 1, Len(mem[i].path))
                    path == new_path \o suffix
                IN [mem[i] EXCEPT !.path = path, !.parent_path = ParentOfPath(path)]
           ELSE mem[i]]
      updated_nodes == {node_id} \cup descendants
  IN [i \in NodeIds |->
        IF i \in descendants
        THEN LET same == {n \in updated_nodes : rewritten[n].path = rewritten[i].parent_path}
             IN [rewritten[i] EXCEPT !.parent_id =
                   IF rewritten[i].parent_path = NullPath \/ same = {} THEN 0
                   ELSE Pick(tie, same)]
        ELSE rewritten[i]]

\* update_node_post without the comparison of the target parent with the
\* original one: every call that supplies parent_path is treated as a move.
update_node_post_always_moves(db, mem, rl, dc, node_id, data, pre, tie) ==
  LET node == mem[node_id]
      original_parent_id == node.parent_id
      original_parent_path == node.parent_path
      new_name == IF data.name # None THEN data.name ELSE node.name
      new_slug == IF data.slug # None THEN data.slug ELSE node.slug
      new_parent_path == pre.target_parent_path
      new_path == IF new_parent_path = NullPath THEN << new_slug >>
                  ELSE JoinPath(new_parent_path, new_slug)
      moved == data.parent_path_set
  IN
  IF has_active_name(db, new_parent_path, new_name, node_id)
  THEN Fail("Conflict", "name", db, rl)
  ELSE IF has_active_path(db, new_path, node_id)
  THEN Fail("Conflict", "path", db, rl)
  ELSE
  LET path_changed == new_path # node.path
      mem1 == [mem EXCEPT ![node_id] =
                 [node EXCEPT
                    !.name = new_name,
                    !.slug = new_slug,
                    !.type = IF data.type # None THEN data.type ELSE node.type,
                    !.parent_id = IF data.parent_path_set THEN pre.target_parent_id
                                  ELSE node.parent_id,
                    !.parent_path = IF data.parent_path_set THEN new_parent_path
                                    ELSE node.parent_path,
                    !.position = IF moved THEN next_position(db, pre.target_parent_id)
                                 ELSE node.position]]
      mem2 == IF moved
              THEN ApplyCounts(mem1,
                     _migrate_subtree_counts_on_move(db, rl, dc, node.path,
                        original_parent_path, new_parent_path))
              ELSE mem1
      mem3 == IF path_changed THEN RewritePaths(db, mem2, node_id, new_path, tie)
              ELSE mem2
      mem4 == IF moved
              THEN normalize_positions(db,
                     normalize_positions(db, mem3, original_parent_id),
                     pre.target_parent_id)
              ELSE mem3
  IN Result("ok", IF moved THEN "moved" ELSE IF path_changed THEN "renamed" ELSE "updated",
            mem4, rl)

\* Lines 205-267: from the uniqueness checks to the commit.
update_node_post(db, mem, rl, dc, node_id, data, pre, tie) ==
  LET node == mem[node_id]
      original_parent_id == node.parent_id
      original_parent_path == node.parent_path
      new_name == IF data.name # None THEN data.name ELSE node.name
      new_slug == IF data.slug # None THEN data.slug ELSE node.slug
      new_parent_path == pre.target_parent_path
      new_path == IF new_parent_path = NullPath THEN << new_slug >>
                  ELSE JoinPath(new_parent_path, new_slug)
      moved == data.parent_path_set /\ pre.target_parent_id # original_parent_id
  IN
  IF has_active_name(db, new_parent_path, new_name, node_id)
  THEN Fail("Conflict", "name", db, rl)
  ELSE IF has_active_path(db, new_path, node_id)
  THEN Fail("Conflict", "path", db, rl)
  ELSE
  LET path_changed == new_path # node.path
      mem1 == [mem EXCEPT ![node_id] =
                 [node EXCEPT
                    !.name = new_name,
                    !.slug = new_slug,
                    !.type = IF data.type # None THEN data.type ELSE node.type,
                    !.parent_id = IF data.parent_path_set THEN pre.target_parent_id
                                  ELSE node.parent_id,
                    !.parent_path = IF data.parent_path_set THEN new_parent_path
                                    ELSE node.parent_path,
                    !.position = IF moved THEN next_position(db, pre.target_parent_id)
                                 ELSE node.position]]
      mem2 == IF moved
              THEN ApplyCounts(mem1,
                     _migrate_subtree_counts_on_move(db, rl, dc, node.path,
                        original_parent_path, new_parent_path))
              ELSE mem1
      mem3 == IF path_changed THEN RewritePaths(db, mem2, node_id, new_path, tie)
              ELSE mem2
      mem4 == IF moved
              THEN normalize_positions(db,
                     normalize_positions(db, mem3, original_parent_id),
                     pre.target_parent_id)
              ELSE mem3
  IN Result("ok", IF moved THEN "moved" ELSE IF path_changed THEN "renamed" ELSE "updated",
            mem4, rl)

update_node(db, rl, dc, node_id, data, user_id, tie) ==
  LET pre == update_node_pre(db, node_id, data, user_id)
  IN IF pre.st # "ok" THEN Fail(pre.st, pre.why, db, rl)
     ELSE update_node_post(db, db, rl, dc, node_id, data, pre, tie)

\* ---------------------------------------------------------------- soft_delete_node
\* Lines 344-361 and 513-530: sign is -1 (decrement) or +1 (increment).
AncestorCountsForNode(db, mem, rl, dc, node_id, sign) ==
  LET direct_output_count == CountedBindings(rl, dc, {node_id})
  IN IF direct_output_count # 0 /\ mem[node_id].parent_path # NullPath
     THEN update_subtree_counts(mem, get_ancestor_ids(db, mem[node_id].parent_path),
                                sign * direct_output_count)
     ELSE mem

\* _increment_ancestor_counts_for_node that adds nothing back.
_increment_ancestor_counts_for_node_skipped(db, mem, rl, dc, node_id) == mem

\* _decrement_ancestor_counts_for_node that subtracts the bindings of the whole subtree.
_decrement_ancestor_counts_for_subtree(db, mem, rl, dc, node_id) ==
  LET subtree_count == CountedBindings(rl, dc, fetch_subtree(db, mem[node_id].path, FALSE))
  IN IF subtree_count # 0 /\ mem[node_id].parent_path # NullPath
     THEN update_subtree_counts(mem, get_ancestor_ids(db, mem[node_id].parent_path),
                                0 - subtree_count)
     ELSE mem

_decrement_ancestor_counts_for_node(db, mem, rl, dc, node_id) ==
  AncestorCountsForNode(db, mem, rl, dc, node_id, 0 - 1)

_increment_ancestor_counts_for_node(db, mem, rl, dc, node_id) ==
  AncestorCountsForNode(db, mem, rl, dc, node_id, 1)

soft_delete_node(db, rl, dc, node_id, user_id) ==
  IF ~_ensure_user(user_id) THEN Fail("MissingActor", "user", db, rl)
  ELSE IF get(db, node_id) = 0 \/ db[node_id].deleted
  THEN Fail("NotFound", "node", db, rl)
  ELSE
  LET mem1 == _decrement_ancestor_counts_for_node(db, db, rl, dc, node_id)
      parent_id == mem1[node_id].parent_id
      mem2 == [mem1 EXCEPT ![node_id].deleted = TRUE]
      mem3 == normalize_positions(db, mem2, parent_id)
  IN Result("ok", "deleted", mem3, rl)

\* ---------------------------------------------------------------- restore_node
\* Lines 532-553: the subtree is queried from db.
\* _recalculate_node_subtree_count that counts the bindings of the node itself too.
_recalculate_node_subtree_count_with_own(db, mem, rl, dc, node_id) ==
  [mem EXCEPT ![node_id].subtree_doc_count =
     CountedBindings(rl, dc, fetch_subtree(mem, mem[node_id].path, FALSE))]

_recalculate_node_subtree_count(db, mem, rl, dc, node_id) ==
  LET subtree_node_ids == fetch_subtree(db, mem[node_id].path, FALSE)
  IN [mem EXCEPT ![node_id].subtree_doc_count =
        IF subtree_node_ids # {} THEN CountedBindings(rl, dc, subtree_node_ids) ELSE 0]

\* restore_node that clears the marker and commits before it tests the name.
restore_node_late_check(db, rl, dc, node_id, user_id) ==
  IF ~_ensure_user(user_id) THEN Fail("MissingActor", "user", db, rl)
  ELSE IF get(db, node_id) = 0 THEN Fail("NotFound", "node", db, rl)
  ELSE IF ~db[node_id].deleted THEN Result("ok", "already_active", db, rl)
  ELSE IF has_active_path(db, db[node_id].path, node_id)
  THEN Fail("Conflict", "path", db, rl)
  ELSE
  LET mem1 == [db EXCEPT ![node_id].deleted = FALSE]
      mem2 == _increment_ancestor_counts_for_node(db, mem1, rl, dc, node_id)
      mem3 == _recalculate_node_subtree_count(db, mem2, rl, dc, node_id)
      mem4 == normalize_positions(db, mem3, mem3[node_id].parent_id)
  IN IF has_active_name(db, db[node_id].parent_path, db[node_id].name, node_id)
     THEN Fail("Conflict", "name", mem1, rl)
     ELSE Result("ok", "restored", mem4, rl)

\* restore_node without the has_active_path test of lines 491-492.
restore_node_no_path_check(db, rl, dc, node_id, user_id) ==
  IF ~_ensure_user(user_id) THEN Fail("MissingActor", "user", db, rl)
  ELSE IF get(db, node_id) = 0 THEN Fail("NotFound", "node", db, rl)
  ELSE IF ~db[node_id].deleted THEN Result("ok", "already_active", db, rl)
  ELSE IF has_active_name(db, db[node_id].parent_path, db[node_id].name, node_id)
  THEN Fail("Conflict", "name", db, rl)
  ELSE
  LET mem1 == [db EXCEPT ![node_id].deleted = FALSE]
      mem2 == _increment_ancestor_counts_for_node(db, mem1, rl, dc, node_id)
      mem3 == _recalculate_node_subtree_count(db, mem2, rl, dc, node_id)
      mem4 == normalize_positions(db, mem3, mem3[node_id].parent_id)
  IN Result("ok", "restored", mem4, rl)

restore_node(db, rl, dc, node_id, user_id) ==
  IF ~_ensure_user(user_id) THEN Fail("MissingActor", "user", db, rl)
  ELSE IF get(db, node_id) = 0 THEN Fail("NotFound", "node", db, rl)
  ELSE IF ~db[node_id].deleted THEN Result("ok", "already_active", db, rl)
  ELSE IF has_active_path(db, db[node_id].path, node_id)
  THEN Fail("Conflict", "path", db, rl)
  ELSE IF has_active_name(db, db[node_id].parent_path, db[node_id].name, node_id)
  THEN Fail("Conflict", "name", db, rl)
  ELSE
  LET mem1 == [db EXCEPT ![node_id].deleted = FALSE]
      mem2 == _increment_ancestor_counts_for_node(db, mem1, rl, dc, node_id)
      mem3 == _recalculate_node_subtree_count(db, mem2, rl, dc, node_id)
      mem4 == normalize_positions(db, mem3, mem3[node_id].parent_id)
  IN Result("ok", "restored", mem4, rl)

\* ---------------------------------------------------------------- purge_node
\* The DELETE of the collected rows; nodes.parent_id is ON DELETE SET NULL
\* (infra/db/models.py:120-122).
DeleteNodes(ns, nodes_to_remove) ==
  [i \in NodeIds |->
     IF i \in nodes_to_remove THEN NoRow
     ELSE IF ns[i].exists /\ ns[i].parent_id \in nodes_to_remove
     THEN [ns[i] EXCEPT !.parent_id = 0]
     ELSE ns[i]]

\* purge_node without the test of lines 368-371 (the node is soft-deleted).
purge_node_of_any_row(db, rl, node_id, user_id) ==
  IF ~_ensure_user(user_id) THEN Fail("MissingActor", "user", db, rl)
  ELSE IF get(db, node_id) = 0 THEN Fail("NotFound", "node", db, rl)
  ELSE
  LET subtree == fetch_subtree(db, db[node_id].path, TRUE)
      nodes_to_remove == {node_id} \cup subtree
      rl1 == [p \in NodeIds \X Docs |-> IF p[1] \in nodes_to_remove THEN "none" ELSE rl[p]]
      mem1 == normalize_positions(db, db, db[node_id].parent_id)
  IN Result("ok", IF nodes_to_remove = {node_id} THEN "purged" ELSE "purged_subtree",
            DeleteNodes(mem1, nodes_to_remove), rl1)

\* purge_node without the DELETE of the node_documents rows.
purge_node_keeps_bindings(db, rl, node_id, user_id) ==
  IF ~_ensure_user(user_id) THEN Fail("MissingActor", "user", db, rl)
  ELSE IF get(db, node_id) = 0 THEN Fail("NotFound", "node", db, rl)
  ELSE IF ~db[node_id].deleted THEN Fail("InvalidOperation", "not_soft_deleted", db, rl)
  ELSE
  LET subtree == fetch_subtree(db, db[node_id].path, TRUE)
      nodes_to_remove == {node_id} \cup subtree
      mem1 == normalize_positions(db, db, db[node_id].parent_id)
  IN Result("ok", IF nodes_to_remove = {node_id} THEN "purged" ELSE "purged_subtree",
            DeleteNodes(mem1, nodes_to_remove), rl)

purge_node(db, rl, node_id, user_id) ==
  IF ~_ensure_user(user_id) THEN Fail("MissingActor", "user", db, rl)
  ELSE IF get(db, node_id) = 0 THEN Fail("NotFound", "node", db, rl)
  ELSE IF ~db[node_id].deleted THEN Fail("InvalidOperation", "not_soft_deleted", db, rl)
  ELSE
  LET subtree == fetch_subtree(db, db[node_id].path, TRUE)
      nodes_to_remove == {node_id} \cup subtree
      rl1 == [p \in NodeIds \X Docs |-> IF p[1] \in nodes_to_remove THEN "none" ELSE rl[p]]
      mem1 == normalize_positions(db, db, db[node_id].parent_id)
  IN Result("ok", IF nodes_to_remove = {node_id} THEN "purged" ELSE "purged_subtree",
            DeleteNodes(mem1, nodes_to_remove), rl1)

\* ---------------------------------------------------------------- reorder_children
SeqToSet(s) == {s[k] : k \in 1 .. Len(s)}

\* reorder_children_pre without the duplicate test of lines 410-411.
reorder_children_pre_no_duplicate_check(db, parent_id, ordered_ids, user_id) ==
  LET none == [st |-> "ok", why |-> "", sequence |-> << >>, lock_ids |-> << >>]
  IN
  IF ~_ensure_user(user_id) THEN [none EXCEPT !.st = "MissingActor", !.why = "user"]
  ELSE IF parent_id # 0 /\ (get(db, parent_id) = 0 \/ db[parent_id].deleted)
  THEN [none EXCEPT !.st = "ParentNotFound", !.why = "parent"]
  ELSE
  LET siblings == fetch_siblings(db, parent_id, FALSE)
      provided_ids_set == SeqToSet(ordered_ids)
      sibling_ids == SeqToSet(siblings)
  IN IF siblings = << >>
     THEN IF ordered_ids # << >> THEN [none EXCEPT !.st = "NotFound", !.why = "node"]
          ELSE [none EXCEPT !.why = "empty"]
     ELSE IF provided_ids_set \ sibling_ids # {}
     THEN [none EXCEPT !.st = "NotFound", !.why = "node"]
     ELSE
     LET remaining_nodes == SelectSeq(siblings, LAMBDA n : n \notin provided_ids_set)
         sequence == ordered_ids \o remaining_nodes
     IN [st |-> "ok", why |-> "",
         sequence |-> sequence,
         lock_ids |-> IF parent_id # 0 THEN Append(sequence, parent_id) ELSE sequence]

\* Lines 394-427: everything up to and including the lock_nodes call.
reorder_children_pre(db, parent_id, ordered_ids, user_id) ==
  LET none == [st |-> "ok", why |-> "", sequence |-> << >>, lock_ids |-> << >>]
  IN
  IF ~_ensure_user(user_id) THEN [none EXCEPT !.st = "MissingActor", !.why = "user"]
  ELSE IF parent_id # 0 /\ (get(db, parent_id) = 0 \/ db[parent_id].deleted)
  THEN [none EXCEPT !.st = "ParentNotFound", !.why = "parent"]
  ELSE
  LET siblings == fetch_siblings(db, parent_id, FALSE)
      provided_ids_set == SeqToSet(ordered_ids)
      sibling_ids == SeqToSet(siblings)
  IN IF siblings = << >>
     THEN IF ordered_ids # << >> THEN [none EXCEPT !.st = "NotFound", !.why = "node"]
          ELSE [none EXCEPT !.why = "empty"]
     ELSE IF Len(ordered_ids) # Cardinality(provided_ids_set)
     THEN [none EXCEPT !.st = "InvalidOperation", !.why = "duplicate"]
     ELSE IF provided_ids_set \ sibling_ids # {}
     THEN [none EXCEPT !.st = "NotFound", !.why = "node"]
     ELSE
     LET remaining_nodes == SelectSeq(siblings, LAMBDA n : n \notin provided_ids_set)
         sequence == ordered_ids \o remaining_nodes
     IN [st |-> "ok", why |-> "",
         sequence |-> sequence,
         lock_ids |-> IF parent_id # 0 THEN Append(sequence, parent_id) ELSE sequence]

\* reorder_children_post with enumerate(sequence, start=1).
reorder_children_post_from_one(mem, rl, pre) ==
  Result("ok", IF pre.why = "empty" THEN "empty" ELSE "reordered",
    [i \in NodeIds |->
       IF \E k \in 1 .. Len(pre.sequence) : pre.sequence[k] = i
       THEN LET index == CHOOSE k \in 1 .. Len(pre.sequence) : pre.sequence[k] = i
            IN IF mem[i].position # index
               THEN [mem[i] EXCEPT !.position = index] ELSE mem[i]
       ELSE mem[i]],
    rl)

\* Lines 429-435.
reorder_children_post(mem, rl, pre) ==
  Result("ok", IF pre.why = "empty" THEN "empty" ELSE "reordered",
    [i \in NodeIds |->
       IF \E k \in 1 .. Len(pre.sequence) : pre.sequence[k] = i
       THEN LET index == (CHOOSE k \in 1 .. Len(pre.sequence) : pre.sequence[k] = i) - 1
            IN IF mem[i].position # index
               THEN [mem[i] EXCEPT !.position = index] ELSE mem[i]
       ELSE mem[i]],
    rl)

reorder_children(db, rl, parent_id, ordered_ids, user_id) ==
  LET pre == reorder_children_pre(db, parent_id, ordered_ids, user_id)
  IN IF pre.st # "ok" THEN Fail(pre.st, pre.why, db, rl)
     ELSE reorder_children_post(db, rl, pre)

\* ---------------------------------------------------------------- list_children
\* children_map[parent_id], sorted by (position, id)
children_map(ns, descendants, parent_id) ==
  IF parent_id = 0 THEN << >>
  ELSE OrderedBy(ns, {i \in descendants : ns[i].parent_id = parent_id})

\* next_level.extend(children_map.get(child.id, [])) for every child of the level
RECURSIVE NextLevel(_, _, _)
NextLevel(ns, descendants, current_level) ==
  IF current_level = << >> THEN << >>
  ELSE children_map(ns, descendants, Head(current_level))
         \o NextLevel(ns, descendants, Tail(current_level))

\* Lines 469-479: the loop over the levels.
RECURSIVE Traverse(_, _, _, _, _, _)
Traverse(ns, descendants, current_level, current_depth, depth, node_type) ==
  IF current_level = << >> \/ current_depth > depth THEN << >>
  ELSE SelectSeq(current_level,
                 LAMBDA child : node_type = None \/ ns[child].type = node_type)
         \o Traverse(ns, descendants,
              IF current_depth < depth THEN NextLevel(ns, descendants, current_level)
              ELSE << >>,
              current_depth + 1, depth, node_type)

\* Lines 447-480: the status and the ordered list of ids.
list_children(ns, node_id, depth, node_type) ==
  IF get(ns, node_id) = 0 THEN [st |-> "NotFound", why |-> "node", items |-> << >>]
  ELSE LET descendants == fetch_children(ns, ns[node_id].path, depth)
       IN [st |-> "ok", why |-> "",
           items |-> Traverse(ns, descendants, children_map(ns, descendants, node_id),
                              1, depth, node_type)]

\* ---------------------------------------------------------------- RelationshipService
\* _require_active_document
DocumentLive(dc, document_id) == dc[document_id] = "live"

\* bind that reactivates a soft-deleted relation without touching the counters.
bind_rebind_uncounted(db, rl, dc, node_id, document_id, user_id) ==
  IF ~_ensure_user(user_id) THEN Fail("MissingActor", "user", db, rl)
  ELSE IF get(db, node_id) = 0 \/ db[node_id].deleted
  THEN Fail("NotFound", "node", db, rl)
  ELSE IF ~DocumentLive(dc, document_id) THEN Fail("DocumentNotFound", "document", db, rl)
  ELSE IF rl[<<node_id, document_id>>] = "active"
  THEN Result("ok", "already_bound", db, rl)
  ELSE IF rl[<<node_id, document_id>>] = "deleted"
  THEN Result("ok", "rebound", db, [rl EXCEPT ![<<node_id, document_id>>] = "active"])
  ELSE
  LET ancestor_ids == get_ancestor_ids(db, db[node_id].path)
  IN Result("ok", "bound",
            update_subtree_counts(db, ancestor_ids, 1),
            [rl EXCEPT ![<<node_id, document_id>>] = "active"])

\* bind without the early return of lines 62-63 for a relation that is active.
bind_no_active_check(db, rl, dc, node_id, document_id, user_id) ==
  IF ~_ensure_user(user_id) THEN Fail("MissingActor", "user", db, rl)
  ELSE IF get(db, node_id) = 0 \/ db[node_id].deleted
  THEN Fail("NotFound", "node", db, rl)
  ELSE IF ~DocumentLive(dc, document_id) THEN Fail("DocumentNotFound", "document", db, rl)
  ELSE
  LET ancestor_ids == get_ancestor_ids(db, db[node_id].path)
  IN Result("ok", IF rl[<<node_id, document_id>>] = "none" THEN "bound" ELSE "rebound",
            update_subtree_counts(db, ancestor_ids, 1),
            [rl EXCEPT ![<<node_id, document_id>>] = "active"])

bind(db, rl, dc, node_id, document_id, user_id) ==
  IF ~_ensure_user(user_id) THEN Fail("MissingActor", "user", db, rl)
  ELSE IF get(db, node_id) = 0 \/ db[node_id].deleted
  THEN Fail("NotFound", "node", db, rl)
  ELSE IF ~DocumentLive(dc, document_id) THEN Fail("DocumentNotFound", "document", db, rl)
  ELSE IF rl[<<node_id, document_id>>] = "active"
  THEN Result("ok", "already_bound", db, rl)
  ELSE
  LET ancestor_ids == get_ancestor_ids(db, db[node_id].path)
  IN Result("ok", IF rl[<<node_id, document_id>>] = "deleted" THEN "rebound" ELSE "bound",
            update_subtree_counts(db, ancestor_ids, 1),
            [rl EXCEPT ![<<node_id, document_id>>] = "active"])

\* unbind that leaves the counters as they are.
unbind_uncounted(db, rl, dc, node_id, document_id, user_id) ==
  IF ~_ensure_user(user_id) THEN Fail("MissingActor", "user", db, rl)
  ELSE IF rl[<<node_id, document_id>>] # "active"
  THEN Fail("RelationNotFound", "relation", db, rl)
  ELSE Result("ok", "unbound", db, [rl EXCEPT ![<<node_id, document_id>>] = "deleted"])

unbind(db, rl, dc, node_id, document_id, user_id) ==
  IF ~_ensure_user(user_id) THEN Fail("MissingActor", "user", db, rl)
  ELSE IF rl[<<node_id, document_id>>] # "active"
  THEN Fail("RelationNotFound", "relation", db, rl)
  ELSE
  LET rl1 == [rl EXCEPT ![<<node_id, document_id>>] = "deleted"]
  IN IF get(db, node_id) # 0 /\ ~db[node_id].deleted
     THEN Result("ok", "unbound",
            update_subtree_counts(db, get_ancestor_ids(db, db[node_id].path), 0 - 1), rl1)
     ELSE Result("ok", "unbound", db, rl1)

\* Lines 119-170.
\* batch_bind that counts every id, the pairs already bound included.
batch_bind_counts_all(db, rl, dc, document_id, node_ids, user_id) ==
  IF ~_ensure_user(user_id) THEN Fail("MissingActor", "user", db, rl)
  ELSE IF ~DocumentLive(dc, document_id) THEN Fail("DocumentNotFound", "document", db, rl)
  ELSE
  LET ordered_ids == SeqToSet(node_ids)
      missing == {i \in ordered_ids : i \notin NodeIds \/ ~db[i].exists \/ db[i].deleted}
  IN IF ordered_ids = {} THEN Result("ok", "empty", db, rl)
     ELSE IF missing # {} THEN Fail("NotFound", "node", db, rl)
     ELSE Result("ok", "batch_bound",
            [a \in NodeIds |->
               IF db[a].exists
               THEN [db[a] EXCEPT !.subtree_doc_count =
                       @ + Cardinality({i \in ordered_ids : a \in get_ancestor_ids(db, db[i].path)})]
               ELSE db[a]],
            [q \in NodeIds \X Docs |->
               IF q[1] \in ordered_ids /\ q[2] = document_id THEN "active" ELSE rl[q]])

batch_bind(db, rl, dc, document_id, node_ids, user_id) ==
  IF ~_ensure_user(user_id) THEN Fail("MissingActor", "user", db, rl)
  ELSE IF ~DocumentLive(dc, document_id) THEN Fail("DocumentNotFound", "document", db, rl)
  ELSE
  LET ordered_ids == SeqToSet(node_ids)
      node_map == {i \in get_many(db, ordered_ids) : ~db[i].deleted}
      missing == ordered_ids \ node_map
      needs_count_update == {i \in ordered_ids : rl[<<i, document_id>>] # "active"}
      ancestor_count_map ==
        [a \in NodeIds |->
           Cardinality({i \in needs_count_update : a \in get_ancestor_ids(db, db[i].path)})]
  IN IF ordered_ids = {} THEN Result("ok", "empty", db, rl)
     ELSE IF missing # {} THEN Fail("NotFound", "node", db, rl)
     ELSE Result("ok", "batch_bound",
            [a \in NodeIds |->
               IF ancestor_count_map[a] # 0
               THEN update_subtree_counts(db, {a}, ancestor_count_map[a])[a]
               ELSE db[a]],
            [q \in NodeIds \X Docs |->
               IF q[1] \in ordered_ids /\ q[2] = document_id THEN "active" ELSE rl[q]])

\* ---------------------------------------------------------------- full recompute
\* recalculate_all_subtree_counts that adds to the counters it finds.
recalculate_all_subtree_counts_no_reset(db, rl, dc) ==
  [i \in NodeIds |->
     IF db[i].exists
     THEN [db[i] EXCEPT !.subtree_doc_count =
             db[i].subtree_doc_count
               + Cardinality({p \in NodeIds \X Docs :
                                /\ rl[p] = "active" /\ dc[p[2]] = "live"
                                /\ db[p[1]].exists /\ ~db[p[1]].deleted
                                /\ i \in get_ancestor_ids(db, db[p[1]].path)})]
     ELSE db[i]]

\* Lines 675-726: the counters recalculate_all_subtree_counts assigns.
recalculate_all_subtree_counts(db, rl, dc) ==
  LET active_bindings ==
        {p \in NodeIds \X Docs :
           /\ rl[p] = "active"
           /\ get(db, p[1]) # 0 /\ ~db[p[1]].deleted
           /\ dc[p[2]] = "live"}
  IN [i \in NodeIds |->
        IF db[i].exists
        THEN [db[i] EXCEPT !.subtree_doc_count =
                Cardinality({p \in active_bindings :
                               i \in get_ancestor_ids(db, db[p[1]].path)})]
        ELSE db[i]]

\* ---------------------------------------------------------------- state
VARIABLES
  nodes,        \* the nodes table: id -> row
  rels,         \* the node_documents table: <<node_id, document_id>> -> state
  docs,         \* the documents table: id -> state
  nextId,       \* the next value of the nodes.id sequence
  softDeleted,  \* a soft_delete_node call has succeeded
  ops,          \* the number of calls that have changed a row
  last,         \* the call being answered: operation, actor, target id, target path
                \* (name, slug and parent_path for create_node, ordered_ids
                \* for reorder_children, document_id for bind and unbind),
                \* status and detail
  txs,          \* the transactions in flight: transaction -> its position,
                \* arguments, loaded rows and advisory locks
  undo,         \* the node of the soft_delete_node call that was the last
                \* call to change a row, the counters before that call, and
                \* whether the restore_node call of the node has followed it
  bindingRows,  \* <<node_id, document_id>> -> the number of node_documents
                \* rows added for the pair and not removed since
  bindUndo,     \* the pair of the bind call that was the last call to change
                \* a row, the counters before that call, and whether the
                \* unbind call of the pair has followed it
  rewritten     \* the rows whose path an update_node call has rewritten
                \* while they were soft-deleted

vars == << nodes, rels, docs, nextId, softDeleted, ops, last, txs, undo, bindingRows, bindUndo,
          rewritten >>

Txs == 1 .. NumTx

\* A transaction slot with no call in it.
NoTx ==
  [pc |-> "idle", op |-> "", id |-> 0, data |-> << >>, pre |-> << >>,
   loaded |-> {}, snap |-> << >>, queue |-> << >>, held |-> {}]

\* No bind call to follow up.
NoBindUndo == [id |-> 0, doc |-> 0, counts |-> << >>, undone |-> FALSE]

\* No soft_delete_node call to follow up.
NoUndo == [id |-> 0, counts |-> << >>, restored |-> FALSE]

Idle == [op |-> "idle", id |-> 0, arg |-> NullPath, st |-> "ok", why |-> "", user |-> ""]

\* The parent_path of a payload that does not set it.
Unset == << None >>

Init ==
  /\ nodes = [i \in NodeIds |-> NoRow]
  /\ rels = [p \in NodeIds \X Docs |-> "none"]
  /\ docs = [d \in Docs |-> "none"]
  /\ nextId = 1
  /\ softDeleted = FALSE
  /\ ops = 0
  /\ last = Idle
  /\ txs = [t \in Txs |-> NoTx]
  /\ undo = NoUndo
  /\ bindingRows = [p \in NodeIds \X Docs |-> 0]
  /\ bindUndo = NoBindUndo
  /\ rewritten = {}

\* The rows that have been rewritten while soft-deleted, after a step that
\* leaves the rows ns.
RewrittenAfter(ns) ==
  {i \in Rows(ns) :
     \/ i \in rewritten
     \/ nodes[i].exists /\ nodes[i].deleted /\ ns[i].path # nodes[i].path}

\* Requests are handled one at a time: a call runs to its commit or to its
\* error, and its response is returned before the next call starts.
Finish(op, user_id, id, arg, r) ==
  /\ last = Idle
  /\ nodes' = r.ns
  /\ rels' = r.rl
  /\ ops' = IF r.ns # nodes \/ r.rl # rels THEN ops + 1 ELSE ops
  /\ last' = [op |-> op, id |-> id, arg |-> arg, st |-> r.st, why |-> r.why,
               user |-> user_id]
  /\ undo' = IF op = "soft_delete_node" /\ r.st = "ok"
             THEN [id |-> id, counts |-> [i \in NodeIds |-> nodes[i].subtree_doc_count],
                   restored |-> FALSE]
             ELSE IF op = "restore_node" /\ r.why = "restored" /\ undo.id = id /\ ~undo.restored
             THEN [undo EXCEPT !.restored = TRUE]
             ELSE IF r.ns # nodes \/ r.rl # rels THEN NoUndo ELSE undo
  /\ bindingRows' =
       [p \in NodeIds \X Docs |->
          IF r.rl[p] = "none" THEN 0
          ELSE IF \/ op = "bind" /\ r.why = "bound" /\ r.rl[p] # rels[p]
                  \/ op = "batch_bind" /\ rels[p] = "none"
          THEN bindingRows[p] + 1
          ELSE bindingRows[p]]
  /\ bindUndo' = IF op = "bind" /\ r.why \in {"bound", "rebound"}
                 THEN [id |-> id, doc |-> arg[1],
                       counts |-> [i \in NodeIds |-> nodes[i].subtree_doc_count],
                       undone |-> FALSE]
                 ELSE IF op = "unbind" /\ r.st = "ok" /\ ~bindUndo.undone
                         /\ bindUndo.id = id /\ bindUndo.doc = arg[1]
                 THEN [bindUndo EXCEPT !.undone = TRUE]
                 ELSE IF r.ns # nodes \/ r.rl # rels THEN NoBindUndo ELSE bindUndo
  /\ rewritten' = RewrittenAfter(r.ns)
  /\ UNCHANGED txs

Return ==
  /\ last # Idle
  /\ last' = Idle
  /\ UNCHANGED << nodes, rels, docs, nextId, softDeleted, ops, txs, undo, bindingRows, bindUndo, rewritten >>

CreateDocument(d) ==
  /\ last = Idle
  /\ docs[d] = "none"
  /\ docs' = [docs EXCEPT ![d] = "live"]
  /\ undo' = NoUndo
  /\ UNCHANGED << nodes, rels, nextId, softDeleted, ops, last, txs, bindingRows, bindUndo, rewritten >>

\* DocumentService.soft_delete_document: the marker is set, no counter is touched.
SoftDeleteDocument(d) ==
  /\ last = Idle
  /\ docs[d] = "live"
  /\ docs' = [docs EXCEPT ![d] = "deleted"]
  /\ undo' = NoUndo
  /\ UNCHANGED << nodes, rels, nextId, softDeleted, ops, last, txs, bindingRows, bindUndo, rewritten >>

\* DocumentService.restore_document: the marker is cleared, no counter is touched.
RestoreDocument(d) ==
  /\ last = Idle
  /\ docs[d] = "deleted"
  /\ docs' = [docs EXCEPT ![d] = "live"]
  /\ undo' = NoUndo
  /\ UNCHANGED << nodes, rels, nextId, softDeleted, ops, last, txs, bindingRows, bindUndo, rewritten >>

CreateNode(data, user_id) ==
  /\ nextId <= MaxNodes
  /\ LET r == _commit(nodes, rels, create_node(nodes, rels, nextId, data, user_id))
     IN /\ Finish("create_node", user_id, nextId, << data.name, data.slug >> \o data.parent_path, r)
        /\ nextId' = IF r.st = "ok" THEN nextId + 1 ELSE nextId
  /\ UNCHANGED << docs, softDeleted >>

UpdateNode(node_id, data, user_id, tie) ==
  /\ Finish("update_node", user_id, node_id,
       IF data.parent_path_set THEN data.parent_path ELSE Unset,
       _commit(nodes, rels, update_node(nodes, rels, docs, node_id, data, user_id, tie)))
  /\ UNCHANGED << docs, nextId, softDeleted >>

SoftDeleteNode(node_id, user_id) ==
  /\ LET r == _commit(nodes, rels, soft_delete_node(nodes, rels, docs, node_id, user_id))
     IN /\ Finish("soft_delete_node", user_id, node_id, NullPath, r)
        /\ softDeleted' = (softDeleted \/ r.st = "ok")
  /\ UNCHANGED << docs, nextId >>

RestoreNode(node_id, user_id) ==
  /\ Finish("restore_node", user_id, node_id, NullPath,
       _commit(nodes, rels, restore_node(nodes, rels, docs, node_id, user_id)))
  /\ UNCHANGED << docs, nextId, softDeleted >>

PurgeNode(node_id, user_id) ==
  /\ Finish("purge_node", user_id, node_id, NullPath,
       _commit(nodes, rels, purge_node(nodes, rels, node_id, user_id)))
  /\ UNCHANGED << docs, nextId, softDeleted >>

ReorderChildren(parent_id, ordered_ids, user_id) ==
  /\ Finish("reorder_children", user_id, parent_id, ordered_ids,
       _commit(nodes, rels, reorder_children(nodes, rels, parent_id, ordered_ids, user_id)))
  /\ UNCHANGED << docs, nextId, softDeleted >>

Bind(node_id, document_id, user_id) ==
  /\ Finish("bind", user_id, node_id, << document_id >>,
       _commit(nodes, rels, bind(nodes, rels, docs, node_id, document_id, user_id)))
  /\ UNCHANGED << docs, nextId, softDeleted >>

Unbind(node_id, document_id, user_id) ==
  /\ Finish("unbind", user_id, node_id, << document_id >>,
       _commit(nodes, rels, unbind(nodes, rels, docs, node_id, document_id, user_id)))
  /\ UNCHANGED << docs, nextId, softDeleted >>

BatchBind(document_id, node_ids, user_id) ==
  /\ Finish("batch_bind", user_id, document_id, node_ids,
       _commit(nodes, rels, batch_bind(nodes, rels, docs, document_id, node_ids, user_id)))
  /\ UNCHANGED << docs, nextId, softDeleted >>

\* A read: the rows stay as they are; the answer holds the type filter,
\* and the depth followed by the ids returned.
ListChildren(node_id, depth, node_type) ==
  /\ last = Idle
  /\ LET r == list_children(nodes, node_id, depth, node_type)
     IN last' = [op |-> "list_children", id |-> node_id, arg |-> << depth >> \o r.items,
                 st |-> r.st, why |-> node_type, user |-> ""]
  /\ UNCHANGED << nodes, rels, docs, nextId, softDeleted, ops, txs, undo, bindingRows, bindUndo, rewritten >>

\* ---------------------------------------------------------------- inputs
NoUser == ""
User == "u1"

\* The paths a caller can name: the root, the path of any row, a path of no row.
PathInputs == {NullPath, MissingPath} \cup {nodes[i].path : i \in Rows(nodes)}

IsActive(n) == nodes[n].exists /\ ~nodes[n].deleted

\* create_node payloads with the given names.
CreateInputs(names) ==
  [name : names, slug : Slugs, parent_path : PathInputs, type : {None}]

\* create_node payloads that give the node a type.
TypedCreateInputs(names) ==
  [name : names, slug : Slugs, parent_path : PathInputs, type : Types]

\* update_node payloads with the given names.  Every call on a node that is
\* not active ends at the NotFound test, which reads none of the payload,
\* so one payload stands for all of them.
UpdateInputs(node_id, names) ==
  LET unset == [name : names, slug : Slugs \cup {None},
                parent_path_set : {FALSE}, parent_path : {NullPath}, type : {None}]
      set == [name : names, slug : Slugs \cup {None},
              parent_path_set : {TRUE}, parent_path : PathInputs, type : {None}]
  IN IF IsActive(node_id) THEN unset \cup set
     ELSE {[name |-> None, slug |-> None, parent_path_set |-> FALSE,
            parent_path |-> NullPath, type |-> None]}

BadSlugUpdate ==
  [name |-> None, slug |-> BadSlug, parent_path_set |-> FALSE, parent_path |-> NullPath,
   type |-> None]

\* The picks among descendants with one path; one pick when no two
\* descendants of the node share a path.
Ties(node_id) ==
  LET ds == IF nodes[node_id].exists
            THEN fetch_descendants(nodes, nodes[node_id].path, node_id) ELSE {}
  IN IF \E i, j \in ds : i # j /\ nodes[i].path = nodes[j].path
     THEN {"lo", "hi"} ELSE {"lo"}

\* ordered_ids: the tuples of at most two ids.  reorder_children tells ids
\* apart only by whether they are active children of the parent, so one id
\* that is not stands for all of them; under a parent that is not active
\* the call ends before it reads ordered_ids, so the empty tuple, one id
\* and one id twice stand for all tuples.
ReorderInputs(parent_id) ==
  LET children == _with_parent_filter(nodes, parent_id) \cap Active(nodes)
      others == NodeIds \ children
      ids == children \cup (IF others = {} THEN {} ELSE {Max(others)})
  IN IF parent_id # 0 /\ ~IsActive(parent_id) THEN {<< >>, << 1 >>, << 1, 1 >>}
     ELSE {<< >>} \cup {<< i >> : i \in ids} \cup {<< i, j >> : i, j \in ids}

\* A call without an actor fails at _ensure_user, the first statement of
\* every operation, whatever its other arguments are.
NoActor ==
  \/ CreateNode([name |-> "n1", slug |-> "a", parent_path |-> NullPath, type |-> None], NoUser)
  \/ UpdateNode(1, BadSlugUpdate, NoUser, "lo")
  \/ SoftDeleteNode(1, NoUser)
  \/ RestoreNode(1, NoUser)
  \/ PurgeNode(1, NoUser)
  \/ ReorderChildren(0, << >>, NoUser)
  \/ BatchBind(1, << 1 >>, NoUser)

\* The name of a node that is given a name of its own.
OwnName == ToString(nextId)

\* ---------------------------------------------------------------- specifications
\* Every call on the tree and on the bindings, on at most MaxTreeNodes nodes.
Next ==
  \/ Return
  \/ ops < MaxTreeOps /\ NoActor
  \/ ops < MaxTreeOps /\ \E n \in NodeIds, d \in Docs : Bind(n, d, NoUser) \/ Unbind(n, d, NoUser)
  \/ \E d \in Docs : CreateDocument(d)
  \/ \E data \in CreateInputs(Names) :
       ops < MaxTreeOps /\ nextId <= MaxTreeNodes /\ CreateNode(data, User)
  \/ ops < MaxTreeOps /\ nextId <= MaxTreeNodes
       /\ CreateNode([name |-> "n1", slug |-> BadSlug, parent_path |-> NullPath,
                      type |-> None], User)
  \/ \E n \in NodeIds : \E data \in UpdateInputs(n, Names \cup {None}) : \E tie \in Ties(n) :
       ops < MaxTreeOps /\ UpdateNode(n, data, User, tie)
  \/ \E n \in NodeIds : ops < MaxTreeOps /\ UpdateNode(n, BadSlugUpdate, User, "lo")
  \/ \E n \in NodeIds : ops < MaxTreeOps /\ SoftDeleteNode(n, User)
  \/ \E n \in NodeIds : ops < MaxTreeOps /\ RestoreNode(n, User)
  \/ \E n \in NodeIds : ops < MaxTreeOps /\ PurgeNode(n, User)
  \/ \E p \in NodeIds \cup {0} : \E ids \in ReorderInputs(p) :
       ops < MaxTreeOps /\ ReorderChildren(p, ids, User)
  \/ \E n \in NodeIds, d \in Docs : ops < MaxTreeOps /\ Bind(n, d, User)
  \/ \E n \in NodeIds, d \in Docs : ops < MaxTreeOps /\ Unbind(n, d, User)

Spec == Init /\ [][Next]_vars

\* The calls that change paths and liveness, every node created with a name
\* of its own, so that only paths can collide.
NextPath ==
  \/ Return
  \/ \E data \in CreateInputs({OwnName}) : ops < MaxOps /\ CreateNode(data, User)
  \/ \E n \in NodeIds : \E data \in UpdateInputs(n, {None}) : \E tie \in Ties(n) :
       ops < MaxOps /\ UpdateNode(n, data, User, tie)
  \/ \E n \in NodeIds : ops < MaxOps /\ SoftDeleteNode(n, User)
  \/ \E n \in NodeIds : ops < MaxOps /\ RestoreNode(n, User)
  \/ \E n \in NodeIds : ops < MaxOps /\ PurgeNode(n, User)

SpecPath == Init /\ [][NextPath]_vars

\* update_node payloads that change the name, the slug or the type, with
\* and without a parent_path.
KeepInputs(node_id) ==
  LET unset == [name : {None, "n1"}, slug : Slugs \cup {None},
                parent_path_set : {FALSE}, parent_path : {NullPath}, type : {None, "folder"}]
      set == [name : {None, "n1"}, slug : Slugs \cup {None},
              parent_path_set : {TRUE}, parent_path : PathInputs, type : {None, "folder"}]
  IN IF IsActive(node_id) THEN unset \cup set
     ELSE {[name |-> None, slug |-> None, parent_path_set |-> FALSE,
            parent_path |-> NullPath, type |-> None]}

\* The calls that make siblings, gaps and counters, and update_node with
\* every kind of payload.
NextKeep ==
  \/ Return
  \/ \E d \in Docs : CreateDocument(d)
  \/ \E data \in CreateInputs({OwnName}) :
       ops < MaxTreeOps /\ nextId <= MaxTreeNodes /\ CreateNode(data, User)
  \/ \E n \in NodeIds : \E data \in KeepInputs(n) : \E tie \in Ties(n) :
       ops < MaxTreeOps /\ UpdateNode(n, data, User, tie)
  \/ \E n \in NodeIds : ops < MaxTreeOps /\ SoftDeleteNode(n, User)
  \/ \E n \in NodeIds, d \in Docs : ops < MaxTreeOps /\ Bind(n, d, User)

SpecKeep == Init /\ [][NextKeep]_vars

\* The same calls, every node created with one and the same name, so that
\* any two active nodes under one parent_path collide on their names.
NextName ==
  \/ Return
  \/ \E data \in CreateInputs({"n1"}) : ops < MaxOps /\ CreateNode(data, User)
  \/ \E n \in NodeIds : \E data \in UpdateInputs(n, {None}) : \E tie \in Ties(n) :
       ops < MaxOps /\ UpdateNode(n, data, User, tie)
  \/ \E n \in NodeIds : ops < MaxOps /\ SoftDeleteNode(n, User)
  \/ \E n \in NodeIds : ops < MaxOps /\ RestoreNode(n, User)
  \/ \E n \in NodeIds : ops < MaxOps /\ PurgeNode(n, User)

SpecName == Init /\ [][NextName]_vars

\* The calls that change the counters: moves, soft-delete, restore and purge
\* of nodes with names of their own, bind and unbind, and soft-delete and
\* restore of the document.
\* node_ids of batch_bind: no id, one id twice, two ids.
BatchInputs ==
  {<< >>} \cup {ids \in (1 .. MaxCountNodes) \X (1 .. MaxCountNodes) : ids[1] <= ids[2]}

MoveInputs ==
  [name : {None}, slug : {None}, parent_path_set : {TRUE}, parent_path : PathInputs,
   type : {None}]

\* NodeService.recalculate_all_subtree_counts: the call takes no actor; the
\* answer tells whether a counter was changed.
RecalculateAll ==
  /\ LET ns == recalculate_all_subtree_counts(nodes, rels, docs)
     IN Finish("recalculate_all_subtree_counts", NoUser, 0, NullPath,
               _commit(nodes, rels,
                       Result("ok", IF ns = nodes THEN "unchanged" ELSE "recounted", ns, rels)))
  /\ UNCHANGED << docs, nextId, softDeleted >>

NextCount ==
  \/ Return
  \/ \E d \in Docs : CreateDocument(d)
  \/ \E d \in Docs : SoftDeleteDocument(d)
  \/ \E d \in Docs : RestoreDocument(d)
  \/ \E data \in CreateInputs({OwnName}) :
       ops < MaxCountOps /\ nextId <= MaxCountNodes /\ CreateNode(data, User)
  \/ \E n \in NodeIds : \E data \in MoveInputs : \E tie \in Ties(n) :
       ops < MaxCountOps /\ UpdateNode(n, data, User, tie)
  \/ \E n \in NodeIds : ops < MaxCountOps /\ SoftDeleteNode(n, User)
  \/ \E n \in NodeIds : ops < MaxCountOps /\ RestoreNode(n, User)
  \/ \E n \in NodeIds : ops < MaxCountOps /\ PurgeNode(n, User)
  \/ \E n \in NodeIds, d \in Docs : ops < MaxCountOps /\ Bind(n, d, User)
  \/ \E n \in NodeIds, d \in Docs : ops < MaxCountOps /\ Unbind(n, d, User)
  \/ \E d \in Docs : \E node_ids \in BatchInputs :
       ops < MaxCountOps /\ BatchBind(d, node_ids, User)

SpecCount == Init /\ [][NextCount]_vars

\* The calls that make the counters drift, and the full recompute.
NextRecount ==
  \/ Return
  \/ \E d \in Docs : CreateDocument(d)
  \/ \E d \in Docs : SoftDeleteDocument(d)
  \/ \E data \in CreateInputs({OwnName}) :
       ops < MaxRecountOps /\ nextId <= MaxCountNodes /\ CreateNode(data, User)
  \/ \E n \in NodeIds : \E data \in MoveInputs : \E tie \in Ties(n) :
       ops < MaxRecountOps /\ UpdateNode(n, data, User, tie)
  \/ \E n \in NodeIds : ops < MaxRecountOps /\ SoftDeleteNode(n, User)
  \/ \E n \in NodeIds : ops < MaxRecountOps /\ RestoreNode(n, User)
  \/ \E n \in NodeIds, d \in Docs : ops < MaxRecountOps /\ Bind(n, d, User)
  \/ \E n \in NodeIds, d \in Docs : ops < MaxRecountOps /\ Unbind(n, d, User)
  \/ ops < MaxRecountOps /\ RecalculateAll

SpecRecount == Init /\ [][NextRecount]_vars

\* The calls that make, hide and show typed nodes, and the listing of the
\* nodes under a node.
NextList ==
  \/ Return
  \/ \E data \in TypedCreateInputs({OwnName}) :
       ops < MaxListOps /\ nextId <= MaxListNodes /\ CreateNode(data, User)
  \/ \E n \in NodeIds : ops < MaxListOps /\ SoftDeleteNode(n, User)
  \/ \E n \in NodeIds : ops < MaxListOps /\ RestoreNode(n, User)
  \/ \E n \in NodeIds, depth \in 1 .. MaxDepth, node_type \in {None, "folder"} :
       ListChildren(n, depth, node_type)

SpecList == Init /\ [][NextList]_vars

\* ---------------------------------------------------------------- transactions
\* update_node and reorder_children as transactions that run side by side.
\* A transaction reads the committed rows (READ COMMITTED), keeps the objects
\* it has loaded in its session (txs[t].snap, never refreshed), takes its
\* advisory locks one pg_advisory_xact_lock call at a time, and writes at
\* its commit; the locks are released when the transaction ends.

\* The session's objects at the commit step: the rows loaded before the
\* lock_nodes call as they were read, every other row as it is now.
SessionRows(t) ==
  [i \in NodeIds |-> IF i \in txs[t].loaded THEN txs[t].snap[i] ELSE nodes[i]]

\* The flush: an UPDATE of the attributes the session has changed, on the
\* rows as they are now; the counters are changed by relative UPDATEs.
Flush(db, mem, out) ==
  [i \in NodeIds |->
     IF ~db[i].exists THEN db[i]
     ELSE [f \in DOMAIN db[i] |->
             IF f = "subtree_doc_count"
             THEN db[i][f] + (out[i][f] - mem[i][f])
             ELSE IF out[i][f] # mem[i][f] THEN out[i][f] ELSE db[i][f]]]

BeginUpdate(t, node_id, data) ==
  /\ last = Idle
  /\ txs[t].pc = "idle"
  /\ LET pre == update_node_pre(nodes, node_id, data, User)
         loaded == {node_id} \cup (IF pre.parent_node # 0 THEN {pre.parent_node} ELSE {})
     IN /\ pre.st = "ok"
        /\ txs' = [txs EXCEPT ![t] =
                     [pc |-> "locking", op |-> "update_node", id |-> node_id,
                      data |-> data, pre |-> pre, loaded |-> loaded,
                      snap |-> [i \in NodeIds |-> IF i \in loaded THEN nodes[i] ELSE NoRow],
                      queue |-> lock_nodes(pre.lock_ids), held |-> {}]]
  /\ UNCHANGED << nodes, rels, docs, nextId, softDeleted, ops, last, undo, bindingRows, bindUndo, rewritten >>

BeginReorder(t, parent_id, ordered_ids) ==
  /\ last = Idle
  /\ txs[t].pc = "idle"
  /\ LET pre == reorder_children_pre(nodes, parent_id, ordered_ids, User)
         loaded == SeqToSet(pre.sequence) \cup (IF parent_id # 0 THEN {parent_id} ELSE {})
     IN /\ pre.st = "ok" /\ pre.why # "empty"
        /\ txs' = [txs EXCEPT ![t] =
                     [pc |-> "locking", op |-> "reorder_children", id |-> parent_id,
                      data |-> ordered_ids, pre |-> pre, loaded |-> loaded,
                      snap |-> [i \in NodeIds |-> IF i \in loaded THEN nodes[i] ELSE NoRow],
                      queue |-> lock_nodes(pre.lock_ids), held |-> {}]]
  /\ UNCHANGED << nodes, rels, docs, nextId, softDeleted, ops, last, undo, bindingRows, bindUndo, rewritten >>

\* One pg_advisory_xact_lock call: it returns once no other transaction
\* holds the key.
Acquire(t) ==
  /\ last = Idle
  /\ txs[t].pc = "locking"
  /\ LET key == Head(txs[t].queue)
     IN /\ \A u \in Txs \ {t} : key \notin txs[u].held
        /\ txs' = [txs EXCEPT ![t].held = @ \cup {key},
                               ![t].queue = Tail(@),
                               ![t].pc = IF Len(txs[t].queue) = 1 THEN "locked" ELSE "locking"]
  /\ UNCHANGED << nodes, rels, docs, nextId, softDeleted, ops, last, undo, bindingRows, bindUndo, rewritten >>

\* An end of transaction that keeps the advisory locks after a rollback.
EndTransaction_commit_only(tx, st) ==
  IF st = "ok" THEN NoTx ELSE [NoTx EXCEPT !.held = tx.held]

\* The end of the transaction, by the commit or by the rollback that follows
\* an error: pg_advisory_xact_lock keys are released and the slot is free.
EndTransaction(tx, st) == NoTx

\* The rest of the call, its commit or rollback, and the end of the
\* transaction, which releases its locks.
Commit(t, tie) ==
  /\ last = Idle
  /\ txs[t].pc = "locked"
  /\ \E mem \in {SessionRows(t)} :
     \E r0 \in {IF txs[t].op = "update_node"
                THEN update_node_post(nodes, mem, rels, docs, txs[t].id, txs[t].data,
                                      txs[t].pre, tie)
                ELSE reorder_children_post(mem, rels, txs[t].pre)} :
     \E r \in {_commit(nodes, rels,
                  IF r0.st = "ok" THEN Result(r0.st, r0.why, Flush(nodes, mem, r0.ns), r0.rl)
                  ELSE r0)} :
        /\ nodes' = r.ns
        /\ rels' = r.rl
        /\ ops' = ops + 1
        /\ last' = [op |-> txs[t].op, id |-> txs[t].id, arg |-> NullPath,
                    st |-> r.st, why |-> r.why, user |-> User]
        /\ txs' = [txs EXCEPT ![t] = EndTransaction(txs[t], r.st)]
  /\ undo' = NoUndo
  /\ bindUndo' = NoBindUndo
  /\ rewritten' = RewrittenAfter(nodes')
  /\ UNCHANGED << docs, nextId, softDeleted, bindingRows >>

\* The moves and renames of the transactions.
TxUpdateInputs(node_id) ==
  [name : {None}, slug : {None}, parent_path_set : {TRUE}, parent_path : PathInputs,
   type : {None}]

\* A new transaction takes the lowest free slot.
FreeSlot(t) == txs[t].pc = "idle" /\ \A u \in Txs : u < t => txs[u].pc # "idle"

TxTies(t) == IF txs[t].op = "update_node" THEN Ties(txs[t].id) ELSE {"lo"}

NextLock ==
  \/ Return
  \/ \E data \in CreateInputs({OwnName}) :
       ops < MaxLockOps /\ nextId <= MaxLockNodes /\ CreateNode(data, User)
  \/ \E t \in Txs, n \in NodeIds : \E data \in TxUpdateInputs(n) :
       ops < MaxLockOps /\ FreeSlot(t) /\ BeginUpdate(t, n, data)
  \/ \E t \in Txs, p \in NodeIds \cup {0} : \E ids \in ReorderInputs(p) :
       ops < MaxLockOps /\ FreeSlot(t) /\ BeginReorder(t, p, ids)
  \/ \E t \in Txs : Acquire(t)
  \/ \E t \in Txs : \E tie \in TxTies(t) : Commit(t, tie)

SpecLock == Init /\ [][NextLock]_vars

\* Fair scheduling: a response is returned; a lock call that can return
\* again and again returns; a transaction that holds its locks runs to its
\* end, whatever number of other calls is answered meanwhile.
LockFairness ==
  /\ WF_vars(Return)
  /\ \A t \in Txs : SF_vars(Acquire(t))
  /\ \A t \in Txs : SF_vars(\E tie \in TxTies(t) : Commit(t, tie))

\* The transactions of NextLock on a tree of at most MaxFairNodes nodes.
NextFair ==
  \/ Return
  \/ \E data \in CreateInputs({OwnName}) :
       ops < MaxFairOps /\ nextId <= MaxFairNodes /\ CreateNode(data, User)
  \/ \E t \in Txs, n \in NodeIds : \E data \in TxUpdateInputs(n) :
       ops < MaxFairOps /\ FreeSlot(t) /\ BeginUpdate(t, n, data)
  \/ \E t \in Txs, p \in NodeIds \cup {0} : \E ids \in ReorderInputs(p) :
       ops < MaxFairOps /\ FreeSlot(t) /\ BeginReorder(t, p, ids)
  \/ \E t \in Txs : Acquire(t)
  \/ \E t \in Txs : \E tie \in TxTies(t) : Commit(t, tie)

SpecLockFair == Init /\ [][NextFair]_vars /\ LockFairness

\* create_node payloads with three slugs, for parents with three children.
SiblingInputs ==
  [name : {OwnName}, slug : Slugs \cup {ThirdSlug}, parent_path : PathInputs, type : {None}]

\* reorder_children transactions alone, on nodes that are only created.
NextReorder ==
  \/ Return
  \/ \E data \in SiblingInputs :
       ops < MaxLockOps /\ nextId <= MaxLockNodes /\ CreateNode(data, User)
  \/ \E t \in Txs, p \in NodeIds \cup {0} : \E ids \in ReorderInputs(p) :
       ops < MaxLockOps /\ FreeSlot(t) /\ BeginReorder(t, p, ids)
  \/ \E t \in Txs : Acquire(t)
  \/ \E t \in Txs : Commit(t, "lo")

SpecReorder == Init /\ [][NextReorder]_vars

PathsUnique ==
  \A i, j \in Active(nodes) : i # j => nodes[i].path # nodes[j].path

\* A rename or move whose rewritten descendant paths collide with an active
\* node's path has been refused by the commit.
PathCollisionRefused ==
  last.op = "update_node" /\ last.st = "IntegrityError" /\ last.why = "path"

\* C4: an active node with a parent has the path of the node its parent_id
\* names, followed by its own slug; an active node without one has its slug
\* as its path.
PathIsParentPathPlusSlug ==
  \A i \in Active(nodes) :
    IF nodes[i].parent_id # 0
    THEN /\ nodes[nodes[i].parent_id].exists
         /\ nodes[i].path = JoinPath(nodes[nodes[i].parent_id].path, nodes[i].slug)
    ELSE nodes[i].path = << nodes[i].slug >>

\* A rename or move of a node that has an active child has been committed.
DescendantsRewritten ==
  /\ last.op = "update_node" /\ last.st = "ok" /\ last.why \in {"renamed", "moved"}
  /\ \E i \in Active(nodes) : nodes[i].parent_id = last.id

\* C5: no two active nodes with the same parent_path have the same name.
NamesUnique ==
  \A i, j \in Active(nodes) :
    i # j /\ nodes[i].parent_path = nodes[j].parent_path => nodes[i].name # nodes[j].name

\* A rename or move that would put two nodes of one name under one
\* parent_path has been refused by the commit.
NameCollisionRefused ==
  last.op = "update_node" /\ last.st = "IntegrityError" /\ last.why = "name"

\* The update_node call asks for a parent that is the node itself or lies in
\* the node's subtree.
IntoOwnSubtree(n, path) ==
  /\ n \in NodeIds /\ IsActive(n)
  /\ path # Unset /\ path # NullPath
  /\ LET p == get_active_by_path(nodes, path)
     IN p # 0 /\ (p = n \/ StartsWithDot(nodes[p].path, nodes[n].path))

RECURSIVE ReachesRoot(_, _, _)
ReachesRoot(ns, i, k) ==
  IF i = 0 \/ ~ns[i].exists THEN TRUE
  ELSE IF k = 0 THEN FALSE
  ELSE ReachesRoot(ns, ns[i].parent_id, k - 1)

Acyclic == \A i \in Rows(nodes) : ReachesRoot(nodes, i, MaxNodes)

NoPrefixOfParent ==
  \A i \in Rows(nodes) :
    nodes[i].parent_id # 0 =>
      ~StartsWithDot(nodes[nodes[i].parent_id].path, nodes[i].path)

\* C6: an update_node call whose new parent is the node itself or lies in the
\* node's subtree fails with InvalidOperation and changes no row; in every
\* state the parent relation is acyclic and no node's path is a proper prefix
\* of its parent's path.
OwnSubtreeMoveRefused ==
  /\ [](Acyclic /\ NoPrefixOfParent)
  /\ [][(last' # last /\ last'.op = "update_node" /\ IntoOwnSubtree(last'.id, last'.arg))
          => (last'.st = "InvalidOperation" /\ nodes' = nodes /\ rels' = rels)]_vars

\* A move of a node under one of its descendants has been answered.
OwnSubtreeMoveAnswered ==
  last.op = "update_node" /\ last.why = "own_subtree"

Unfinished == {t \in Txs : txs[t].pc # "idle"}

\* The transaction waits in pg_advisory_xact_lock for a key another
\* unfinished transaction holds.
Waiting(t) ==
  /\ txs[t].pc = "locking"
  /\ \E u \in Unfinished \ {t} : Head(txs[t].queue) \in txs[u].held

Deadlock == Unfinished # {} /\ \A t \in Unfinished : Waiting(t)

\* Each lock taken is a new key, larger than every key the transaction holds.
AscendingAcquire ==
  \A t \in Txs :
    txs'[t].held # txs[t].held /\ txs'[t].held # {} =>
      \E key \in NodeIds :
        /\ txs'[t].held = txs[t].held \cup {key}
        /\ \A held \in txs[t].held : held < key

\* A transaction that has left lock_nodes does not enter it again.
LockedOnce ==
  \A t \in Txs : txs[t].pc = "locked" => txs'[t].pc \in {"locked", "idle"}

\* C7: lock_nodes takes the keys one at a time in strictly ascending order,
\* each key once, whatever the order of the caller's list, and a transaction
\* calls it once; no state is a deadlock, in which every unfinished
\* transaction waits for a key that another unfinished transaction holds.
LocksAscendingNoDeadlock ==
  /\ [](~Deadlock)
  /\ [][AscendingAcquire /\ LockedOnce]_vars

\* A transaction whose caller listed its keys in descending order waits for
\* a key that the other transaction holds.
BlockedOnOverlap ==
  \E t \in Txs :
    /\ Waiting(t)
    /\ Len(txs[t].pre.lock_ids) > 1
    /\ txs[t].pre.lock_ids[1] > txs[t].pre.lock_ids[2]

\* C8: a step that changes a node row is the commit of a transaction that
\* holds the advisory lock of that node.
WritesHoldLock ==
  [][\A i \in NodeIds :
       nodes'[i] # nodes[i] =>
         \E t \in Txs : /\ txs[t].pc = "locked" /\ txs'[t].pc = "idle"
                        /\ i \in txs[t].held]_vars

\* DocumentNotFound and RelationNotFound are the NotFound errors of bind and unbind.
FailureStatuses ==
  {"NotFound", "ParentNotFound", "Conflict", "InvalidOperation", "MissingActor",
   "DocumentNotFound", "RelationNotFound"}

\* C9: a call that fails with NotFound, ParentNotFound, Conflict,
\* InvalidOperation or MissingActor leaves every node row and every binding
\* as it was.
FailedCallsChangeNothing ==
  [][(last' # last /\ last'.st \in FailureStatuses) => (nodes' = nodes /\ rels' = rels)]_vars

\* A restore_node call has failed on the name test, after another node took
\* the name.
RestoreConflictAnswered ==
  last.op = "restore_node" /\ last.st = "Conflict" /\ last.why = "name"

StrictAncestors(ns, n) == {i \in Active(ns) : StartsWithDot(ns[n].path, ns[i].path)}

NewBindingAnswered ==
  last' # last /\ last'.op = "bind" /\ last'.st = "ok" /\ last'.why \in {"bound", "rebound"}

ChainOf(parent_path) ==
  IF parent_path = NullPath THEN {}
  ELSE {i \in Active(nodes) :
          nodes[i].path = parent_path \/ StartsWithDot(parent_path, nodes[i].path)}

MoveAnswered ==
  last' # last /\ last'.op = "update_node" /\ last'.st = "ok" /\ last'.why = "moved"

\* The live bindings to live documents on the active nodes of the subtree of m.
SubtreeBindings(m) ==
  Cardinality({p \in NodeIds \X Docs :
                 /\ rels[p] = "active" /\ docs[p[2]] = "live"
                 /\ IsActive(p[1])
                 /\ nodes[p[1]].path = nodes[m].path
                    \/ StartsWithDot(nodes[p[1]].path, nodes[m].path)})

SoftDeleteRestoreKeepsAncestors ==
  undo.restored =>
    \A i \in Rows(nodes) :
      StartsWithDot(nodes[undo.id].path, nodes[i].path) =>
        nodes[i].subtree_doc_count = undo.counts[i]

\* A node with a counted binding and an active ancestor has been
\* soft-deleted and restored at once.
SoftDeletedAndRestored ==
  /\ undo.restored
  /\ last.op = "restore_node"
  /\ \E d \in Docs : rels[<< undo.id, d >>] = "active" /\ docs[d] = "live"
  /\ \E i \in Active(nodes) :
       StartsWithDot(nodes[undo.id].path, nodes[i].path) /\ nodes[i].subtree_doc_count > 0

\* C13: in every state the subtree_doc_count of every node is at least 0.
CountsNonNegative ==
  \A i \in Rows(nodes) : nodes[i].subtree_doc_count >= 0

\* Node i lies under node n: its path continues n's path, or its parent_id
\* links lead to n.
RECURSIVE LinkedUnder(_, _, _, _)
LinkedUnder(ns, i, n, k) ==
  IF i = 0 \/ ~ns[i].exists \/ k = 0 THEN FALSE
  ELSE ns[i].parent_id = n \/ LinkedUnder(ns, ns[i].parent_id, n, k - 1)

DescendantsOf(ns, n) ==
  {i \in Rows(ns) \ {n} :
     StartsWithDot(ns[i].path, ns[n].path) \/ LinkedUnder(ns, i, n, MaxNodes)}

PurgeAnswered ==
  last' # last /\ last'.op = "purge_node" /\ last'.st = "ok"

\* C14: after a successful purge_node(n) no node row is left for n or for a
\* descendant of n, active or soft-deleted, and no binding row names n or
\* one of those descendants.
PurgeRemovesSubtreeAndBindings ==
  [][PurgeAnswered =>
       \A i \in {last'.id} \cup DescendantsOf(nodes, last'.id) :
         /\ ~nodes'[i].exists
         /\ \A d \in Docs : rels'[<< i, d >>] = "none"]_vars

\* A purge has removed the node together with rows under it.
PurgedSubtree ==
  last.op = "purge_node" /\ last.why = "purged_subtree"

PurgeCalled ==
  last' # last /\ last'.op = "purge_node" /\ last'.st # "MissingActor"

\* C15: purge_node of a node that exists and is not soft-deleted fails with
\* InvalidOperation, purge_node of a node that does not exist fails with
\* NotFound, and neither removes a node row or a binding row.
PurgeRefusedUnlessSoftDeleted ==
  [][PurgeCalled =>
       /\ (nodes[last'.id].exists /\ ~nodes[last'.id].deleted)
            => (last'.st = "InvalidOperation" /\ nodes' = nodes /\ rels' = rels)
       /\ ~nodes[last'.id].exists
            => (last'.st = "NotFound" /\ nodes' = nodes /\ rels' = rels)]_vars

\* purge_node of an active node that carries a binding has been refused.
PurgeOfActiveRefused ==
  /\ last.op = "purge_node" /\ last.st = "InvalidOperation"
  /\ \E d \in Docs : rels[<< last.id, d >>] = "active"

\* The active children of parent p (the active roots for p = 0).
SiblingsOf(ns, p) == {i \in Active(ns) : ns[i].parent_id = p}

\* The nodes of S by (position, id).
RECURSIVE ByPosition(_, _)
ByPosition(ns, S) ==
  IF S = {} THEN << >>
  ELSE LET first == CHOOSE i \in S : \A j \in S \ {i} :
                      \/ ns[i].position < ns[j].position
                      \/ ns[i].position = ns[j].position /\ i < j
       IN << first >> \o ByPosition(ns, S \ {first})

\* A reorder_children call with an actor, an active parent (or none) and
\* ordered_ids that are distinct active children of the parent.
ValidReorder ==
  /\ last' # last /\ last'.op = "reorder_children" /\ last'.st # "MissingActor"
  /\ last'.id = 0 \/ IsActive(last'.id)
  /\ \A k \in 1 .. Len(last'.arg) : last'.arg[k] \in SiblingsOf(nodes, last'.id)
  /\ \A k, l \in 1 .. Len(last'.arg) : k # l => last'.arg[k] # last'.arg[l]

\* C16: reorder_children with distinct ids of active children, all of them or
\* some, succeeds; the children then stand in the order of ordered_ids followed
\* by the other children in their former (position, id) order, the position
\* of each is its index in that sequence, and the set of children is the same.
ReorderPlacesSubsetFirst ==
  [][ValidReorder =>
       LET siblings == SiblingsOf(nodes, last'.id)
           sequence == last'.arg \o ByPosition(nodes, siblings \ SeqToSet(last'.arg))
       IN /\ last'.st = "ok"
          /\ Len(sequence) = Cardinality(siblings)
          /\ \A k \in 1 .. Len(sequence) : nodes'[sequence[k]].position = k - 1
          /\ SiblingsOf(nodes', last'.id) = siblings]_vars

\* A reorder_children call that named some of the children has put a child
\* with a larger id before one with a smaller id.
ReorderedBySubset ==
  /\ last.op = "reorder_children" /\ last.why = "reordered"
  /\ Len(last.arg) < Cardinality(SiblingsOf(nodes, last.id))
  /\ \E i, j \in SiblingsOf(nodes, last.id) :
       i < j /\ nodes[i].position > nodes[j].position

PathChangeAnswered ==
  /\ last' # last /\ last'.op = "update_node" /\ last'.st = "ok"
  /\ last'.why \in {"moved", "renamed"}

\* C17: a move or rename of node m replaces, in the path of every descendant
\* of m, m's old path by m's new path and leaves the rest of that path, the
\* descendant's slug, name and position as they were; the position of every
\* node that is not a child of the old or of the new parent is unchanged.
MoveChangesOnlyPrefix ==
  [][PathChangeAnswered =>
       LET m == last'.id
           old_path == nodes[m].path
       IN /\ \A i \in DescendantsOf(nodes, m) :
               /\ StartsWithDot(nodes[i].path, old_path)
               /\ nodes'[i].path =
                    nodes'[m].path \o SubSeq(nodes[i].path, Len(old_path) + 1, Len(nodes[i].path))
               /\ nodes'[i].slug = nodes[i].slug
               /\ nodes'[i].name = nodes[i].name
               /\ nodes'[i].position = nodes[i].position
          /\ \A i \in Rows(nodes) \ {m} :
               nodes[i].parent_id \notin {nodes[m].parent_id, nodes'[m].parent_id}
                 => nodes'[i].position = nodes[i].position]_vars

\* A node with a grandchild has been moved or renamed.
SubtreeOfDepthTwoRewritten ==
  /\ last.op = "update_node" /\ last.st = "ok" /\ last.why \in {"moved", "renamed"}
  /\ \E i \in Rows(nodes) :
       /\ StartsWithDot(nodes[i].path, nodes[last.id].path)
       /\ Len(nodes[i].path) >= Len(nodes[last.id].path) + 2

Answered(op) == last' # last /\ last'.op = op /\ last'.st # "MissingActor"

\* soft_delete_node succeeds on an active node, which it marks, and fails
\* with NotFound on a soft-deleted or absent one.
SoftDeleteGuarded ==
  Answered("soft_delete_node") =>
    IF IsActive(last'.id)
    THEN last'.st = "ok" /\ nodes'[last'.id].exists /\ nodes'[last'.id].deleted
    ELSE last'.st = "NotFound"

\* update_node fails with NotFound on a soft-deleted node.
UpdateGuarded ==
  (Answered("update_node") /\ nodes[last'.id].exists /\ nodes[last'.id].deleted)
    => last'.st = "NotFound"

\* A restore_node that succeeds on a soft-deleted node leaves it active.
RestoreActivates ==
  (Answered("restore_node") /\ last'.st = "ok"
     /\ nodes[last'.id].exists /\ nodes[last'.id].deleted)
    => (nodes'[last'.id].exists /\ ~nodes'[last'.id].deleted)

\* A row is removed by purge_node only, and it was soft-deleted.
RemovedOnlyWhenSoftDeleted ==
  \A i \in NodeIds :
    (nodes[i].exists /\ ~nodes'[i].exists) =>
      (last'.op = "purge_node" /\ nodes[i].deleted)

\* C18: a node is active or soft-deleted; soft_delete_node succeeds only on
\* an active node and marks it, update_node fails with NotFound on a
\* soft-deleted node, restore_node makes a soft-deleted node active, and a
\* node row is removed only by purge_node and only while it is soft-deleted.
NodeLifecycleGuarded ==
  [][SoftDeleteGuarded /\ UpdateGuarded /\ RestoreActivates
       /\ RemovedOnlyWhenSoftDeleted]_vars

\* Another active node has the path of node n, or its name under its parent_path.
PlaceTaken(n) ==
  \E i \in Active(nodes) \ {n} :
    \/ nodes[i].path = nodes[n].path
    \/ nodes[i].parent_path = nodes[n].parent_path /\ nodes[i].name = nodes[n].name

\* C19: restore_node of a soft-deleted node fails with Conflict and changes
\* no row exactly when another active node has its path, or its name under
\* its parent_path; otherwise it succeeds and the node is active at its path.
RestoreConflictsExactlyWhenTaken ==
  [][(Answered("restore_node") /\ nodes[last'.id].exists /\ nodes[last'.id].deleted) =>
       IF PlaceTaken(last'.id)
       THEN last'.st = "Conflict" /\ nodes' = nodes /\ rels' = rels
       ELSE /\ last'.st = "ok"
            /\ nodes'[last'.id].exists /\ ~nodes'[last'.id].deleted
            /\ nodes'[last'.id].path = nodes[last'.id].path]_vars

\* A restore_node call has failed because another node took the path.
RestorePathTaken ==
  last.op = "restore_node" /\ last.st = "Conflict" /\ last.why = "path"

\* C20: create_node with a valid slug fails with ParentNotFound when no
\* active node has parent_path, fails with Conflict when an active node has
\* the new path or an active node with the same parent_path has the name,
\* and creates the node otherwise, also when a node under another parent
\* has the name; a call that fails creates no node.
CreateOutcome ==
  [][(Answered("create_node") /\ SlugOk(last'.arg[2])) =>
       LET name == last'.arg[1]
           slug == last'.arg[2]
           parent_path == SubSeq(last'.arg, 3, Len(last'.arg))
           path == Append(parent_path, slug)
       IN IF parent_path # NullPath /\ ~\E i \in Active(nodes) : nodes[i].path = parent_path
          THEN last'.st = "ParentNotFound" /\ nodes' = nodes
          ELSE IF \/ \E i \in Active(nodes) : nodes[i].path = path
                  \/ \E i \in Active(nodes) :
                       nodes[i].parent_path = parent_path /\ nodes[i].name = name
          THEN last'.st = "Conflict" /\ nodes' = nodes
          ELSE /\ last'.st = "ok"
               /\ ~nodes[last'.id].exists
               /\ nodes'[last'.id].exists /\ ~nodes'[last'.id].deleted
               /\ nodes'[last'.id].path = path
               /\ nodes'[last'.id].name = name
               /\ \A i \in NodeIds \ {last'.id} : nodes'[i] = nodes[i]]_vars

\* A node has been created with the name of an active node under another parent.
SameNameUnderOtherParent ==
  /\ last.op = "create_node" /\ last.st = "ok"
  /\ \E i \in Active(nodes) \ {last.id} :
       /\ nodes[i].name = nodes[last.id].name
       /\ nodes[i].parent_path # nodes[last.id].parent_path

\* parent_id names a node that is absent or soft-deleted.
ReorderParentMissing == last'.id # 0 /\ ~IsActive(last'.id)

\* ordered_ids names an id twice.
ReorderHasDuplicate ==
  \E k, l \in 1 .. Len(last'.arg) : k # l /\ last'.arg[k] = last'.arg[l]

\* ordered_ids names an id that is not an active child of the parent; every
\* id is one when the parent has no active child.
ReorderNamesStranger ==
  \E k \in 1 .. Len(last'.arg) : last'.arg[k] \notin SiblingsOf(nodes, last'.id)

\* C21: reorder_children fails with ParentNotFound when parent_id names an
\* absent or soft-deleted node; under an active parent (or none) it fails
\* with InvalidOperation when ordered_ids has a duplicate and with NotFound
\* when ordered_ids names an id that is not an active child of the parent,
\* with one of the two when both are the case; a failing call changes no
\* position.
ReorderFailures ==
  [][Answered("reorder_children") =>
       /\ ReorderParentMissing => last'.st = "ParentNotFound"
       /\ (~ReorderParentMissing /\ ReorderHasDuplicate /\ ~ReorderNamesStranger)
            => last'.st = "InvalidOperation"
       /\ (~ReorderParentMissing /\ ~ReorderHasDuplicate /\ ReorderNamesStranger)
            => last'.st = "NotFound"
       /\ (~ReorderParentMissing /\ ReorderHasDuplicate /\ ReorderNamesStranger)
            => last'.st \in {"InvalidOperation", "NotFound"}
       /\ last'.st # "ok" => nodes' = nodes]_vars

\* reorder_children has refused an active child named twice, under a parent
\* with two active children at positions 0 and 1.
ReorderDuplicateRefused ==
  /\ last.op = "reorder_children" /\ last.st = "InvalidOperation"
  /\ Len(last.arg) = 2 /\ last.arg[1] = last.arg[2]
  /\ last.arg[1] \in SiblingsOf(nodes, last.id)
  /\ Cardinality(SiblingsOf(nodes, last.id)) = 2

\* The pair of the bind or unbind call being answered.
AnsweredPair == << last'.id, last'.arg[1] >>

\* C22: bind of a pair whose binding is active succeeds and changes no
\* counter and no binding; bind of a pair whose binding is soft-deleted
\* makes that row active again and adds no row; in every state there is at
\* most one binding row for a pair; unbind of a pair that has no active
\* binding fails with NotFound and changes nothing.
BindIsIdempotent ==
  /\ [](\A p \in NodeIds \X Docs : bindingRows[p] <= 1)
  /\ [][(Answered("bind") /\ IsActive(last'.id) /\ docs[last'.arg[1]] = "live") =>
          /\ last'.st = "ok"
          /\ rels'[AnsweredPair] = "active"
          /\ \A p \in (NodeIds \X Docs) \ {AnsweredPair} : rels'[p] = rels[p]
          /\ rels[AnsweredPair] = "active" => (nodes' = nodes /\ rels' = rels)
          /\ rels[AnsweredPair] = "deleted" => bindingRows' = bindingRows
          /\ bindingRows'[AnsweredPair] = 1]_vars
  /\ [][(Answered("unbind") /\ rels[AnsweredPair] # "active") =>
          /\ last'.st = "RelationNotFound"
          /\ nodes' = nodes /\ rels' = rels]_vars

\* A binding that was removed by unbind has been made active again by bind,
\* and a second bind of the pair has been answered.
BoundAgainTwice ==
  /\ last.op = "bind" /\ last.why = "already_bound"
  /\ bindingRows[<< last.id, last.arg[1] >>] = 1
  /\ nodes[last.id].subtree_doc_count = 1
  /\ ops >= 3

\* C23: unbind of an active binding on an active node n takes 1 from the
\* counter of every node a bind of the pair adds 1 to, n and the active
\* nodes above n, and from no other; a bind followed by the unbind of the
\* pair, with no call that changes a node or a binding in between, leaves
\* every counter at the value it had before the bind.
UnbindMirrorsBind ==
  /\ [](bindUndo.undone =>
         \A i \in NodeIds : nodes[i].subtree_doc_count = bindUndo.counts[i])
  /\ [][(Answered("unbind") /\ last'.st = "ok" /\ IsActive(last'.id)) =>
          \A i \in NodeIds :
            nodes'[i].subtree_doc_count =
              nodes[i].subtree_doc_count
                - (IF i = last'.id \/ i \in StrictAncestors(nodes, last'.id)
                   THEN 1 ELSE 0)]_vars

\* A binding on a node with an active ancestor has been made and removed at once.
BoundAndUnbound ==
  /\ bindUndo.undone
  /\ last.op = "unbind"
  /\ \E i \in Active(nodes) : StartsWithDot(nodes[bindUndo.id].path, nodes[i].path)

\* C24: list_children(id, depth, type) returns exactly the active nodes
\* whose path continues the path of node id by 1 .. depth labels and whose
\* type is the filter (all of them without a filter), each once.
ListChildrenExact ==
  [][(Answered("list_children") /\ last'.st = "ok") =>
       LET depth == last'.arg[1]
           items == Tail(last'.arg)
           node_type == last'.why
       IN /\ SeqToSet(items) =
               {i \in Active(nodes) :
                  /\ MatchDepth(nodes[i].path, nodes[last'.id].path, depth)
                  /\ node_type = None \/ nodes[i].type = node_type}
          /\ Len(items) = Cardinality(SeqToSet(items))]_vars

MutatingCalls ==
  {"create_node", "update_node", "soft_delete_node", "restore_node", "purge_node",
   "reorder_children", "bind", "unbind", "batch_bind"}

\* C25: a create_node, update_node, soft_delete_node, restore_node,
\* purge_node, reorder_children, bind, unbind or batch_bind call made with
\* an empty actor identity fails with MissingActor, whatever the rows are,
\* and leaves every node, counter, binding and document as it was.
MissingActorRefused ==
  [][(last' # last /\ last'.op \in MutatingCalls /\ last'.user = "") =>
       /\ last'.st = "MissingActor"
       /\ nodes' = nodes /\ rels' = rels /\ docs' = docs /\ nextId' = nextId]_vars

\* purge_node of a soft-deleted node, which an actor could purge, has been
\* refused for want of an actor.
PurgeWithoutActorRefused ==
  /\ last.op = "purge_node" /\ last.user = "" /\ last.st = "MissingActor"
  /\ nodes[last.id].exists /\ nodes[last.id].deleted

\* C26: under every interleaving of update_node transactions, in every
\* committed state the parent relation is acyclic and the path of every
\* active node is the path of its parent followed by its slug.
ConcurrentMovesKeepTree == Acyclic /\ PathIsParentPathPlusSlug

\* C27: under every interleaving of two reorder_children transactions, the
\* committed positions of the active children of a parent are the numbers
\* 0 .. n-1, each once (as they are after the two calls run one after the
\* other, in either order).
ConcurrentReordersDense ==
  \A p \in NodeIds \cup {0} :
    LET siblings == SiblingsOf(nodes, p)
    IN /\ {nodes[i].position : i \in siblings} = 0 .. Cardinality(siblings) - 1
       /\ Cardinality({nodes[i].position : i \in siblings}) = Cardinality(siblings)

\* Node i is the purged node or is linked under it by parent_id.
InPurgedSubtree(i) == i = last'.id \/ LinkedUnder(nodes, i, last'.id, MaxNodes)

\* C28: a successful purge_node(n) removes the row of n and of nodes that
\* are descendants of n, and bindings of those nodes, and no other row: a
\* node created at n's path after n was soft-deleted, and its children, stay.
PurgeRemovesOnlySubtree ==
  [][PurgeAnswered =>
       \A i \in NodeIds :
         /\ (nodes[i].exists /\ ~nodes'[i].exists) => InPurgedSubtree(i)
         /\ \A d \in Docs :
              (rels[<< i, d >>] # "none" /\ rels'[<< i, d >>] = "none")
                => InPurgedSubtree(i)]_vars

\* C29: after a move of node m to another parent that had k active
\* children, the position of m is k, the children the new parent had keep
\* their positions, and the active children left under the old parent have
\* the positions 0 .. n-1 in their former order.
MovePlacesLast ==
  [][MoveAnswered =>
       LET m == last'.id
           new_siblings == SiblingsOf(nodes, nodes'[m].parent_id)
           remaining == ByPosition(nodes, SiblingsOf(nodes, nodes[m].parent_id) \ {m})
       IN /\ nodes'[m].position = Cardinality(new_siblings)
          /\ \A i \in new_siblings : nodes'[i].position = nodes[i].position
          /\ \A k \in 1 .. Len(remaining) : nodes'[remaining[k]].position = k - 1]_vars

LiveDescendants(ns, n) == {j \in Active(ns) : StartsWithDot(ns[j].path, ns[n].path)}

RecalculateAnswered == last' # last /\ last'.op = "recalculate_all_subtree_counts"

\* The live bindings to live documents on active nodes.
LiveBindings ==
  {p \in NodeIds \X Docs : rels[p] = "active" /\ docs[p[2]] = "live" /\ p[1] \in Active(nodes)}

\* The call changes no field but the counter, no binding and no document,
\* and a second call right after it changes nothing.
RecalculateFrame ==
  /\ \A i \in NodeIds :
       nodes'[i] = [nodes[i] EXCEPT !.subtree_doc_count = nodes'[i].subtree_doc_count]
  /\ rels' = rels /\ docs' = docs
  /\ recalculate_all_subtree_counts(nodes', rels', docs') = nodes'

PurgeKeepsCountsExact ==
  [][(/\ Answered("purge_node") /\ last'.st = "ok"
      /\ CountedBindings(rels, docs, LiveDescendants(nodes, last'.id)) > 0) =>
       \A i \in Rows(nodes') :
         nodes'[i].subtree_doc_count =
           recalculate_all_subtree_counts(nodes', rels', docs')[i].subtree_doc_count]_vars

\* C34: after an update_node that changes the path of node m, every row
\* whose path lay under the old path of m has as parent_path its new path
\* without the last label and has the parent_id it had before the call,
\* also when a soft-deleted row of the subtree has the path of an active one.
RewriteKeepsParentLinks ==
  [][PathChangeAnswered =>
       \A i \in fetch_descendants(nodes, nodes[last'.id].path, last'.id) :
         /\ nodes'[i].parent_path = ParentOfPath(nodes'[i].path)
         /\ nodes'[i].parent_id = nodes[i].parent_id]_vars

\* The step ends transaction t.
Ends(t) == txs[t].pc # "idle" /\ txs'[t].pc = "idle"

\* C35: the step that ends a transaction, by its commit or by the rollback
\* after an error, releases every lock the transaction took, so that no
\* finished transaction holds a lock; under fair scheduling a transaction
\* that waits for a lock acquires it, and every transaction finishes.
LocksReleasedAtEnd ==
  /\ [][\A t \in Txs : Ends(t) => txs'[t].held = {}]_vars
  /\ [](\A t \in Txs : txs[t].pc = "idle" => txs[t].held = {})
  /\ \A t \in Txs : Waiting(t) ~> (txs[t].pc = "locked")
  /\ \A t \in Txs : (txs[t].pc # "idle") ~> (txs[t].pc = "idle")

\* An update_node transaction has ended with a Conflict raised after it took
\* its locks, and another transaction is in lock_nodes at the key of the
\* node, which the ended transaction held until this step.
ConflictReleasedWaiter ==
  /\ last.op = "update_node" /\ last.st = "Conflict"
  /\ \E t \in Txs :
       /\ txs[t].pc = "locking" /\ Head(txs[t].queue) = last.id
       /\ \A u \in Txs : last.id \notin txs[u].held

\* C36: a create_node that succeeds gives the new node the position k,
\* the number of active nodes its parent (or the root level) already has, so
\* that it comes after each of them, and changes the position of none.
CreateAppends ==
  [][(Answered("create_node") /\ last'.st = "ok") =>
       LET siblings == SiblingsOf(nodes, nodes'[last'.id].parent_id)
       IN /\ nodes'[last'.id].position = Cardinality(siblings)
          /\ \A i \in siblings :
               /\ nodes'[i].position = nodes[i].position
               /\ nodes'[i].position < nodes'[last'.id].position]_vars

\* The rows after bind has been called for each id of ids in turn.
RECURSIVE BindEach(_, _, _, _)
BindEach(ns, rl, document_id, ids) ==
  IF ids = << >> THEN [ns |-> ns, rl |-> rl]
  ELSE LET r == bind(ns, rl, docs, Head(ids), document_id, User)
       IN BindEach(r.ns, r.rl, document_id, Tail(ids))

\* The distinct ids of S in every order.
Orders(S) == {ids \in [1 .. Cardinality(S) -> S] : SeqToSet(ids) = S}

\* C37: batch_bind of a live document leaves the node rows and the
\* bindings that one bind call for each distinct id leaves, in whatever
\* order, so that an id given twice and a pair already bound change no
\* counter and a soft-deleted pair is made active; when an id names an
\* absent or soft-deleted node the call fails with NotFound (DocumentNotFound
\* for a document that is not live) and changes nothing.
BatchBindIsBindEach ==
  [][Answered("batch_bind") =>
       LET ids == SeqToSet(last'.arg)
           d == last'.id
       IN IF \E i \in ids : ~IsActive(i)
          THEN /\ last'.st = IF docs[d] = "live" THEN "NotFound" ELSE "DocumentNotFound"
               /\ nodes' = nodes /\ rels' = rels
          ELSE docs[d] = "live" =>
                 /\ last'.st = "ok"
                 /\ \A seq \in Orders(ids) :
                      LET r == BindEach(nodes, rels, d, seq)
                      IN nodes' = r.ns /\ rels' = r.rl]_vars

\* batch_bind has bound a document to two nodes, one above the other, and
\* has counted each binding once.
BatchBoundChain ==
  /\ last.op = "batch_bind" /\ last.st = "ok" /\ Len(last.arg) = 2
  /\ last.arg[1] # last.arg[2]
  /\ last.arg[1] \in StrictAncestors(nodes, last.arg[2])
  /\ rels[<< last.arg[1], last.id >>] = "active" /\ rels[<< last.arg[2], last.id >>] = "active"
  /\ nodes[last.arg[1]].subtree_doc_count = 2

\* C38: an update_node that changes the path of node m replaces the old
\* path of m by the new one in the path of every soft-deleted row under it,
\* as it does for the active ones; and a restore_node that succeeds makes
\* the node active with the path of its parent followed by its own slug.
SoftDeletedFollowRewrite ==
  [][/\ PathChangeAnswered =>
          LET m == last'.id
              old_path == nodes[m].path
          IN \A i \in Rows(nodes) \ {m} :
               StartsWithDot(nodes[i].path, old_path) =>
                 nodes'[i].path =
                   nodes'[m].path \o SubSeq(nodes[i].path, Len(old_path) + 1, Len(nodes[i].path))
     /\ (Answered("restore_node") /\ last'.st = "ok") =>
          LET n == last'.id
              parent_id == nodes'[n].parent_id
          IN /\ ~nodes'[n].deleted
             /\ IF parent_id = 0 THEN nodes'[n].path = << nodes'[n].slug >>
                ELSE /\ nodes'[parent_id].exists
                     /\ nodes'[n].path = Append(nodes'[parent_id].path, nodes'[n].slug)]_vars

\* A node whose path was rewritten while it was soft-deleted has been
\* restored under its parent.
RestoredAfterRewrite ==
  /\ last.op = "restore_node" /\ last.st = "ok" /\ last.why = "restored"
  /\ last.id \in rewritten
  /\ nodes[last.id].parent_id # 0

\* The call supplies no parent_path, or one that names the parent the node has.
KeepsParent ==
  LET m == last'.id
  IN \/ last'.arg = Unset
     \/ last'.arg = NullPath /\ nodes[m].parent_id = 0
     \/ \E i \in Active(nodes) : nodes[i].path = last'.arg /\ i = nodes[m].parent_id

\* C39: an update_node that succeeds and keeps the parent of the node,
\* whatever name, slug or type it sets, leaves the position and the
\* subtree_doc_count of every node as they were.
KeepingParentKeepsPlaces ==
  [][(Answered("update_node") /\ last'.st = "ok" /\ KeepsParent) =>
       \A i \in NodeIds :
         /\ nodes'[i].position = nodes[i].position
         /\ nodes'[i].subtree_doc_count = nodes[i].subtree_doc_count]_vars

\* A node under a parent that counts a binding has been given a name, a
\* slug and a type by a call that named its parent again.
RenamedInPlace ==
  /\ last.op = "update_node" /\ last.st = "ok" /\ last.why = "renamed"
  /\ last.arg # Unset
  /\ nodes[last.id].name = "n1" /\ nodes[last.id].type = "folder"
  /\ nodes[last.id].parent_id # 0
  /\ nodes[nodes[last.id].parent_id].subtree_doc_count > 0

====
